---------------------------- MODULE Spec2Model ----------------------------
(***************************************************************************)
(* Cashfree Payments node: the payout authorization and request-signing   *)
(* chain of CashfreePayments.execute (createCashgram / deactivateCashgram) *)
(* together with the batch loop that drives it.                            *)
(*                                                                         *)
(* Strings are sequences of tokens (one token is a character or a fixed    *)
(* literal of the source), so that trimming, concatenation and "contains"  *)
(* are computed, not assumed.  A credential field that is not configured   *)
(* is the empty sequence: the code tests these fields with `!x`, which     *)
(* treats undefined and '' alike.                                          *)
(***************************************************************************)
EXTENDS Integers, Sequences, FiniteSets, TLC

(* ------------------------------ bounds -------------------------------- *)

\* Largest batch (number of input items) explored.
MaxItems == 2

\* Latest clock value (milliseconds) the wall clock reaches.
MaxNow == 1000

\* The time (milliseconds) a request takes to settle.
ClockStep == 500

(* ------------------------------ strings ------------------------------- *)

IsSpace(c) == c \in {" ", "\n", "\t"}

RECURSIVE TrimStart(_)
TrimStart(s) ==
    IF s = <<>> THEN <<>>
    ELSE IF IsSpace(Head(s)) THEN TrimStart(Tail(s)) ELSE s

RECURSIVE TrimEnd(_)
TrimEnd(s) ==
    IF s = <<>> THEN <<>>
    ELSE IF IsSpace(s[Len(s)]) THEN TrimEnd(SubSeq(s, 1, Len(s) - 1)) ELSE s

\* String.prototype.trim
Trim(s) == TrimEnd(TrimStart(s))

\* needle occurs in hay as a contiguous run of tokens (String.includes)
Contains(hay, needle) ==
    \E k \in 0..(Len(hay) - Len(needle)) :
        SubSeq(hay, k + 1, k + Len(needle)) = needle

DigitChar == <<"0", "1", "2", "3", "4", "5", "6", "7", "8", "9">>

\* decimal rendering of a natural number, as `${n}` renders it
RECURSIVE Digits(_)
Digits(n) ==
    IF n < 10 THEN <<DigitChar[n + 1]>>
    ELSE Digits(n \div 10) \o <<DigitChar[(n % 10) + 1]>>

(* ------------------------------ JS values ----------------------------- *)

Undefined == [type |-> "undefined", val |-> <<>>]
Str(s) == [type |-> "string", val |-> s]

\* truthiness of a JSON scalar
Truthy(v) == v.type = "string" /\ v.val # <<>>

\* `${v}` in a template literal
ToStr(v) == IF v.type = "undefined" THEN <<"undefined">> ELSE v.val

\* `!x` on a credential field
Falsy(s) == s = <<>>

(* --------------------------- helper methods --------------------------- *)

\* the UTF-8 bytes of the characters beyond ASCII that occur in the inputs;
\* an ASCII token stands for its own bytes
Utf8Table == [c \in {"é", "€"} |->
                 IF c = "é" THEN <<"0xC3", "0xA9">> ELSE <<"0xE2", "0x82", "0xAC">>]

\* Buffer.from(s, 'utf8')
RECURSIVE Utf8Encode(_)
Utf8Encode(s) ==
    IF s = <<>> THEN <<>>
    ELSE (IF Head(s) \in DOMAIN Utf8Table THEN Utf8Table[Head(s)] ELSE <<Head(s)>>)
         \o Utf8Encode(Tail(s))

BeginMarker == <<"-----BEGIN", " ", "PUBLIC KEY-----">>
EndMarker == <<"-----END", " ", "PUBLIC KEY-----">>

\* s.replace(/m/g, ''): one pass from the left, what it leaves is not scanned
\* again
RECURSIVE RemoveAll(_, _)
RemoveAll(s, m) ==
    IF Len(s) < Len(m) THEN s
    ELSE IF SubSeq(s, 1, Len(m)) = m
    THEN RemoveAll(SubSeq(s, Len(m) + 1, Len(s)), m)
    ELSE <<Head(s)>> \o RemoveAll(Tail(s), m)

\* a bug CleanPublicKey could have: the last replace removes blanks only and
\* leaves the line breaks in
CleanPublicKey_BlanksOnly(publicKeyContent) ==
    SelectSeq(RemoveAll(RemoveAll(publicKeyContent, BeginMarker), EndMarker),
              LAMBDA c : c # " ")

\* the cleaning of the key text: the two delimiters are removed, then all
\* whitespace
CleanPublicKey(publicKeyContent) ==
    SelectSeq(RemoveAll(RemoveAll(publicKeyContent, BeginMarker), EndMarker),
              LAMBDA c : ~IsSpace(c))

\* base64 blobs that decode to an RSA SubjectPublicKeyInfo; every other blob
\* makes crypto.createPublicKey throw
ValidSpkiBlobs == {<<"MIIBIjAN">>}

\* the message of the error crypto.createPublicKey throws
KeyParseError == <<"error:1E08010C:DECODER routines::unsupported">>

\* blobs that decode to a public key that is not an RSA key: createPublicKey
\* accepts them and crypto.publicEncrypt throws
NonRsaSpkiBlobs == {<<"MFkwEwYH">>}

\* the message of the error crypto.publicEncrypt throws
EncryptError ==
    <<"error:03000096:digital envelope routines::operation not supported for this keytype">>

\* a bug generateEncryptedSignature could have: the padding option is left
\* out, and node:crypto pads with PKCS#1 v1.5
generateEncryptedSignature_Pkcs1(clientIdWithTimestamp, publicKeyContent) ==
    LET cleanedPublicKey == CleanPublicKey(publicKeyContent) IN
    IF cleanedPublicKey \in ValidSpkiBlobs
    THEN [ok |-> TRUE,
          value |-> [encoding |-> "base64", scheme |-> "RSA-PKCS1-v1_5",
                     key |-> cleanedPublicKey,
                     plain |-> Utf8Encode(clientIdWithTimestamp)],
          msg |-> <<>>]
    ELSE [ok |-> FALSE,
          value |-> [encoding |-> "none", scheme |-> "none", key |-> <<>>,
                     plain |-> <<>>],
          msg |-> <<"Failed to generate signature: ">>
                  \o (IF cleanedPublicKey \in NonRsaSpkiBlobs
                      THEN EncryptError ELSE KeyParseError)]

\* a bug generateEncryptedSignature could have: the catch block returns an
\* empty signature instead of throwing
generateEncryptedSignature_EmptyOnError(clientIdWithTimestamp, publicKeyContent) ==
    LET cleanedPublicKey == CleanPublicKey(publicKeyContent) IN
    IF cleanedPublicKey \in ValidSpkiBlobs
    THEN [ok |-> TRUE,
          value |-> [encoding |-> "base64", scheme |-> "RSA-OAEP-SHA1",
                     key |-> cleanedPublicKey,
                     plain |-> Utf8Encode(clientIdWithTimestamp)],
          msg |-> <<>>]
    ELSE [ok |-> TRUE,
          value |-> [encoding |-> "none", scheme |-> "none", key |-> <<>>,
                     plain |-> <<>>],
          msg |-> <<>>]

\* generateEncryptedSignature: [ok, value, msg]; the ciphertext is kept
\* symbolic, as the scheme and the key it was made under and the plaintext
\* bytes, with the encoding of the returned text
generateEncryptedSignature(clientIdWithTimestamp, publicKeyContent) ==
    LET cleanedPublicKey == CleanPublicKey(publicKeyContent) IN
    IF cleanedPublicKey \in ValidSpkiBlobs
    THEN [ok |-> TRUE,
          value |-> [encoding |-> "base64", scheme |-> "RSA-OAEP-SHA1",
                     key |-> cleanedPublicKey,
                     plain |-> Utf8Encode(clientIdWithTimestamp)],
          msg |-> <<>>]
    ELSE [ok |-> FALSE,
          value |-> [encoding |-> "none", scheme |-> "none", key |-> <<>>,
                     plain |-> <<>>],
          msg |-> <<"Failed to generate signature: ">>
                  \o (IF cleanedPublicKey \in NonRsaSpkiBlobs
                      THEN EncryptError ELSE KeyParseError)]

\* a bug createClientIdWithTimestamp could have: Math.round in the place of
\* Math.floor
createClientIdWithTimestamp_Round(clientId, nowMs) ==
    LET epochTimestamp == (nowMs + 500) \div 1000 IN
    clientId \o <<".">> \o Digits(epochTimestamp)

\* createClientIdWithTimestamp, with Date.now() passed in
createClientIdWithTimestamp(clientId, nowMs) ==
    LET epochTimestamp == nowMs \div 1000 IN
    clientId \o <<".">> \o Digits(epochTimestamp)

SandboxPayoutHost == <<"https://sandbox.cashfree.com">>
ProductionPayoutHost == <<"https://payout-api.cashfree.com">>

\* a bug getPayoutBaseUrl could have: production is what is tested for, and
\* every other value falls to the sandbox host
getPayoutBaseUrl_SandboxDefault(environment) ==
    IF environment = "production" THEN ProductionPayoutHost ELSE SandboxPayoutHost

getPayoutBaseUrl(environment) ==
    IF environment = "sandbox" THEN SandboxPayoutHost ELSE ProductionPayoutHost

AuthFailurePrefix == <<"Failed to get authorization token: ">>

NoInputError == <<>>

\* a bug ValidateInputs could have: the fields are not trimmed before the test
ValidateInputs_NoTrim(clientId, clientSecret, publicKey) ==
    IF Falsy(clientId)
    THEN <<"Payout ", "Client ID", " is empty or missing">>
    ELSE IF Falsy(clientSecret)
    THEN <<"Payout ", "Client Secret", " is empty or missing">>
    ELSE IF Falsy(publicKey)
    THEN <<"Payout ", "Public Key", " is empty or missing">>
    ELSE NoInputError

\* a bug ValidateInputs could have: the checks run in another order
ValidateInputs_KeyFirst(clientId, clientSecret, publicKey) ==
    IF Falsy(publicKey) \/ Trim(publicKey) = <<>>
    THEN <<"Payout ", "Public Key", " is empty or missing">>
    ELSE IF Falsy(clientSecret) \/ Trim(clientSecret) = <<>>
    THEN <<"Payout ", "Client Secret", " is empty or missing">>
    ELSE IF Falsy(clientId) \/ Trim(clientId) = <<>>
    THEN <<"Payout ", "Client ID", " is empty or missing">>
    ELSE NoInputError

\* the three input checks at the head of getPayoutAuthToken: the message of
\* the first check that throws, NoInputError when none does
ValidateInputs(clientId, clientSecret, publicKey) ==
    IF Falsy(clientId) \/ Trim(clientId) = <<>>
    THEN <<"Payout ", "Client ID", " is empty or missing">>
    ELSE IF Falsy(clientSecret) \/ Trim(clientSecret) = <<>>
    THEN <<"Payout ", "Client Secret", " is empty or missing">>
    ELSE IF Falsy(publicKey) \/ Trim(publicKey) = <<>>
    THEN <<"Payout ", "Public Key", " is empty or missing">>
    ELSE NoInputError

NoHeaders == [x \in {} |-> <<>>]
NoRequest == [item |-> -1, op |-> "none", method |-> "", host |-> <<>>, path |-> <<>>,
              headers |-> NoHeaders, body |-> NoHeaders]

\* the authorize request getPayoutAuthToken builds
AuthorizeRequest(item, clientId, clientSecret, signature, environment) ==
    [item |-> item, op |-> "authorize", method |-> "POST",
     host |-> getPayoutBaseUrl(environment),
     path |-> <<"/payout/v1/authorize">>,
     headers |-> [ContentType |-> <<"application/json">>,
                  XClientId |-> Trim(clientId),
                  XClientSecret |-> Trim(clientSecret),
                  XCfSignature |-> signature],
     body |-> NoHeaders]

\* getPayoutAuthToken up to its fetch: [ok, msg, request]
AuthorizeBegin(item, clientId, clientSecret, publicKey, environment, nowMs) ==
    LET inputError == ValidateInputs(clientId, clientSecret, publicKey)
        clientIdWithTimestamp == createClientIdWithTimestamp(clientId, nowMs)
        signature == generateEncryptedSignature(clientIdWithTimestamp, publicKey)
    IN  IF inputError # NoInputError
        THEN [ok |-> FALSE, msg |-> AuthFailurePrefix \o inputError,
              request |-> NoRequest]
        ELSE IF ~signature.ok
        THEN [ok |-> FALSE, msg |-> AuthFailurePrefix \o signature.msg,
              request |-> NoRequest]
        ELSE [ok |-> TRUE, msg |-> <<>>,
              request |-> AuthorizeRequest(item, clientId, clientSecret,
                                           signature.value, environment)]

(* --------------------------- HTTP responses --------------------------- *)

\* a parsed JSON body: null, or an object with the fields the code reads
JsonNull == [type |-> "null", status |-> Undefined,
             data |-> [type |-> "undefined", token |-> Undefined],
             message |-> Undefined, subCode |-> Undefined]

JsonObject(status, data, message, subCode) ==
    [type |-> "object", status |-> status, data |-> data,
     message |-> message, subCode |-> subCode]

NoData == [type |-> "undefined", token |-> Undefined]
Data(token) == [type |-> "object", token |-> token]

StringifyField(name, v) ==
    IF v.type = "undefined" THEN <<>> ELSE <<name, ":">> \o v.val \o <<";">>

\* JSON.stringify of a parsed body
Stringify(j) ==
    IF j.type = "null" THEN <<"null">>
    ELSE <<"{">> \o StringifyField("status", j.status)
         \o (IF j.data.type = "undefined" THEN <<>>
             ELSE <<"data", ":", "{">> \o StringifyField("token", j.data.token)
                  \o <<"}", ";">>)
         \o StringifyField("message", j.message)
         \o StringifyField("subCode", j.subCode) \o <<"}">>

\* fetch rejected: no HTTP response at all
Rejected(cause) ==
    [kind |-> "reject", status |-> 0, text |-> <<>>, parses |-> FALSE,
     json |-> JsonNull, cause |-> cause]

\* an HTTP response whose body is the JSON text of j
HttpJson(status, j) ==
    [kind |-> "http", status |-> status, text |-> Stringify(j), parses |-> TRUE,
     json |-> j, cause |-> <<>>]

\* an HTTP response whose body is not JSON
HttpText(status, text) ==
    [kind |-> "http", status |-> status, text |-> text, parses |-> FALSE,
     json |-> JsonNull, cause |-> <<>>]

NoResponse == Rejected(<<>>)

\* Response.ok
ResponseOk(resp) == resp.status >= 200 /\ resp.status <= 299

FetchFailed == <<"fetch failed">>
JsonSyntaxError == <<"Unexpected token < in JSON at position 0">>
\* the TypeError V8 raises for null.status
NullStatusTypeError == <<"Cannot read properties of ", "null", " (reading 'status')">>

\* tokens the authorize endpoint hands out
Tokens == {<<"abc123">>, <<"tok2">>}

\* what the authorize endpoint may answer
AuthorizeResponses ==
    {Rejected(FetchFailed),
     HttpJson(500, JsonObject(Str(<<"SUCCESS">>), Data(Str(<<"abc123">>)), Undefined, Undefined)),
     HttpText(200, <<"<html>">>),
     HttpJson(200, JsonNull),
     HttpJson(200, JsonObject(Str(<<"SUCCESS">>), NoData, Undefined, Undefined)),
     HttpJson(200, JsonObject(Str(<<"SUCCESS">>), Data(Str(<<>>)), Undefined, Undefined)),
     HttpJson(200, JsonObject(Str(<<"ERROR">>), Data(Str(<<"abc123">>)),
                              Str(<<"bad sig">>), Str(<<"400">>))),
     HttpJson(200, JsonObject(Str(<<"PENDING">>), Data(Str(<<"abc123">>)), Undefined, Undefined))}
    \cup {HttpJson(200, JsonObject(Str(<<"SUCCESS">>), Data(Str(t)), Undefined, Undefined)) :
            t \in Tokens}

\* what a payout operation endpoint may answer
OperationResponses ==
    {Rejected(FetchFailed),
     HttpText(400, <<"Bad Request">>),
     HttpJson(200, JsonObject(Str(<<"SUCCESS">>), NoData, Str(<<"ok">>), Str(<<"200">>)))}

NoToken == Undefined

\* a bug AuthorizeEnd could have: the status field is not compared with
\* SUCCESS, any body that carries a token yields it
AuthorizeEnd_TokenOnly(response) ==
    LET authData == response.json
        fail(m) == [ok |-> FALSE, token |-> NoToken, msg |-> AuthFailurePrefix \o m]
    IN  IF response.kind = "reject" THEN fail(response.cause)
        ELSE IF ~ResponseOk(response)
        THEN fail(<<"Authorization failed: ">> \o Digits(response.status)
                  \o <<" - ">> \o response.text)
        ELSE IF ~response.parses THEN fail(JsonSyntaxError)
        ELSE IF authData.type = "null" THEN fail(NullStatusTypeError)
        ELSE IF authData.data.type = "object" /\ Truthy(authData.data.token)
        THEN [ok |-> TRUE, token |-> authData.data.token, msg |-> <<>>]
        ELSE IF authData.status = Str(<<"ERROR">>)
        THEN fail(<<"Cashfree API Error: ">> \o ToStr(authData.message)
                  \o <<" (">> \o ToStr(authData.subCode) \o <<")">>)
        ELSE fail(<<"No valid token found in authorization response: ">>
                  \o Stringify(authData))

\* a bug AuthorizeEnd could have: response.ok is not tested, the body of an
\* error response is parsed like any other
AuthorizeEnd_NoOkCheck(response) ==
    LET authData == response.json
        fail(m) == [ok |-> FALSE, token |-> NoToken, msg |-> AuthFailurePrefix \o m]
    IN  IF response.kind = "reject" THEN fail(response.cause)
        ELSE IF ~response.parses THEN fail(JsonSyntaxError)
        ELSE IF authData.type = "null" THEN fail(NullStatusTypeError)
        ELSE IF /\ authData.status = Str(<<"SUCCESS">>)
                /\ authData.data.type = "object"
                /\ Truthy(authData.data.token)
        THEN [ok |-> TRUE, token |-> authData.data.token, msg |-> <<>>]
        ELSE IF authData.status = Str(<<"ERROR">>)
        THEN fail(<<"Cashfree API Error: ">> \o ToStr(authData.message)
                  \o <<" (">> \o ToStr(authData.subCode) \o <<")">>)
        ELSE fail(<<"No valid token found in authorization response: ">>
                  \o Stringify(authData))

\* a bug AuthorizeEnd could have: the error of a non-success HTTP status is
\* thrown past the catch block, without the prefix
AuthorizeEnd_BareHttpError(response) ==
    LET authData == response.json
        fail(m) == [ok |-> FALSE, token |-> NoToken, msg |-> AuthFailurePrefix \o m]
    IN  IF response.kind = "reject" THEN fail(response.cause)
        ELSE IF ~ResponseOk(response)
        THEN [ok |-> FALSE, token |-> NoToken,
              msg |-> <<"Authorization failed: ">> \o Digits(response.status)
                      \o <<" - ">> \o response.text]
        ELSE IF ~response.parses THEN fail(JsonSyntaxError)
        ELSE IF authData.type = "null" THEN fail(NullStatusTypeError)
        ELSE IF /\ authData.status = Str(<<"SUCCESS">>)
                /\ authData.data.type = "object"
                /\ Truthy(authData.data.token)
        THEN [ok |-> TRUE, token |-> authData.data.token, msg |-> <<>>]
        ELSE IF authData.status = Str(<<"ERROR">>)
        THEN fail(<<"Cashfree API Error: ">> \o ToStr(authData.message)
                  \o <<" (">> \o ToStr(authData.subCode) \o <<")">>)
        ELSE fail(<<"No valid token found in authorization response: ">>
                  \o Stringify(authData))

\* getPayoutAuthToken from the settling of its fetch on: [ok, token, msg]
AuthorizeEnd(response) ==
    LET authData == response.json
        fail(m) == [ok |-> FALSE, token |-> NoToken, msg |-> AuthFailurePrefix \o m]
    IN  IF response.kind = "reject" THEN fail(response.cause)
        ELSE IF ~ResponseOk(response)
        THEN fail(<<"Authorization failed: ">> \o Digits(response.status)
                  \o <<" - ">> \o response.text)
        ELSE IF ~response.parses THEN fail(JsonSyntaxError)
        ELSE IF authData.type = "null" THEN fail(NullStatusTypeError)
        ELSE IF /\ authData.status = Str(<<"SUCCESS">>)
                /\ authData.data.type = "object"
                /\ Truthy(authData.data.token)
        THEN [ok |-> TRUE, token |-> authData.data.token, msg |-> <<>>]
        ELSE IF authData.status = Str(<<"ERROR">>)
        THEN fail(<<"Cashfree API Error: ">> \o ToStr(authData.message)
                  \o <<" (">> \o ToStr(authData.subCode) \o <<")">>)
        ELSE fail(<<"No valid token found in authorization response: ">>
                  \o Stringify(authData))

\* a bug OperationRequest could have: the token is sent without the Bearer
\* scheme
OperationRequest_RawToken(item, operation, params, authToken, environment) ==
    [item |-> item, op |-> operation, method |-> "POST",
     host |-> getPayoutBaseUrl(environment),
     path |-> <<"/payout/v1/">> \o <<operation>>,
     headers |-> [ContentType |-> <<"application/json">>,
                  Authorization |-> ToStr(authToken)],
     body |-> [cashgramId |-> params.cashgramId]]

\* a bug OperationRequest could have: the operation endpoint is addressed at
\* the production host whatever the environment
OperationRequest_FixedHost(item, operation, params, authToken, environment) ==
    [item |-> item, op |-> operation, method |-> "POST",
     host |-> ProductionPayoutHost,
     path |-> <<"/payout/v1/">> \o <<operation>>,
     headers |-> [ContentType |-> <<"application/json">>,
                  Authorization |-> <<"Bearer ">> \o ToStr(authToken)],
     body |-> IF operation = "createCashgram"
              THEN [cashgramId |-> params.cashgramId, amount |-> params.amount,
                    name |-> params.name, email |-> params.email,
                    phone |-> params.phone, linkExpiry |-> params.linkExpiry,
                    remarks |-> params.remarks,
                    notifyCustomer |-> params.notifyCustomer]
              ELSE [cashgramId |-> params.cashgramId]]

\* the operation request of createCashgram / deactivateCashgram
OperationRequest(item, operation, params, authToken, environment) ==
    [item |-> item, op |-> operation, method |-> "POST",
     host |-> getPayoutBaseUrl(environment),
     path |-> <<"/payout/v1/">> \o <<operation>>,
     headers |-> [ContentType |-> <<"application/json">>,
                  Authorization |-> <<"Bearer ">> \o ToStr(authToken)],
     body |-> IF operation = "createCashgram"
              THEN [cashgramId |-> params.cashgramId, amount |-> params.amount,
                    name |-> params.name, email |-> params.email,
                    phone |-> params.phone, linkExpiry |-> params.linkExpiry,
                    remarks |-> params.remarks,
                    notifyCustomer |-> params.notifyCustomer]
              ELSE [cashgramId |-> params.cashgramId]]

OperationFailureText(operation) ==
    IF operation = "createCashgram" THEN <<"Cashgram creation failed: ">>
    ELSE <<"Cashgram deactivation failed: ">>

\* a bug OperationEnd could have: the body of the error response is not read,
\* the message carries the status alone
OperationEnd_StatusOnly(operation, response) ==
    IF response.kind = "reject"
    THEN [ok |-> FALSE, json |-> JsonNull, msg |-> response.cause]
    ELSE IF ~ResponseOk(response)
    THEN [ok |-> FALSE, json |-> JsonNull,
          msg |-> OperationFailureText(operation) \o Digits(response.status)]
    ELSE IF ~response.parses
    THEN [ok |-> FALSE, json |-> JsonNull, msg |-> JsonSyntaxError]
    ELSE [ok |-> TRUE, json |-> response.json, msg |-> <<>>]

\* the operation's handling of its fetch: [ok, json, msg]
OperationEnd(operation, response) ==
    IF response.kind = "reject"
    THEN [ok |-> FALSE, json |-> JsonNull, msg |-> response.cause]
    ELSE IF ~ResponseOk(response)
    THEN [ok |-> FALSE, json |-> JsonNull,
          msg |-> OperationFailureText(operation) \o Digits(response.status)
                  \o <<" - ">> \o response.text]
    ELSE IF ~response.parses
    THEN [ok |-> FALSE, json |-> JsonNull, msg |-> JsonSyntaxError]
    ELSE [ok |-> TRUE, json |-> response.json, msg |-> <<>>]

(* ------------------------------- inputs ------------------------------- *)

PayoutClientIds == {<<>>, <<" ">>, <<"CF1">>, <<" ", "CF1", " ">>}
PayoutClientSecrets == {<<>>, <<" ">>, <<"s3cret">>}
GoodPem == BeginMarker \o <<"\n", "MIIBIjAN", "\n">> \o EndMarker \o <<"\n">>
BadPem == BeginMarker \o <<"\n", "garbage", "\n">> \o EndMarker
EcPem == BeginMarker \o <<"\n", "MFkwEwYH", "\n">> \o EndMarker
PayoutPublicKeys == {<<>>, <<"\n">>, GoodPem, BadPem, EcPem}
Environments == {"sandbox", "production"}
GatewayClientIds == {<<>>, <<"pgid">>}

\* every combination of the payout fields and the environment with the gateway
\* client id configured, and one credential set without it
CredentialSets ==
    {c \in [payoutClientId : PayoutClientIds, payoutClientSecret : PayoutClientSecrets,
            payoutPublicKey : PayoutPublicKeys, environment : Environments,
            clientId : GatewayClientIds, clientSecret : {<<"pgsecret">>},
            apiVersion : {<<"2025-01-01">>}] :
        c.clientId = <<>> =>
            /\ c.payoutClientId = <<"CF1">> /\ c.payoutClientSecret = <<"s3cret">>
            /\ c.payoutPublicKey = GoodPem /\ c.environment = "sandbox"}

PayoutOperations == {"createCashgram", "deactivateCashgram"}
GatewayOperations == {"createOrder"}
Operations == PayoutOperations \cup GatewayOperations \cup {"archiveOrder"}

\* the node parameters of input item k (0-based)
Parameters(k) ==
    [cashgramId |-> <<"CG_">> \o Digits(k + 1), amount |-> <<"10">>,
     name |-> <<"Asha">>, email |-> <<"a@example.com">>, phone |-> <<"9999999999">>,
     linkExpiry |-> <<"2026/12/31">>, remarks |-> <<"gift">>,
     notifyCustomer |-> <<"1">>]

Batches == UNION {[1..n -> Operations] : n \in 0..MaxItems}

(* ------------------------------- state -------------------------------- *)

VARIABLES
    credentials,     \* this.getCredentials('cashfreeApi')
    items,           \* the operation parameter of each input item
    continueOnFail,  \* this.continueOnFail()
    i,               \* the loop index of execute
    pc,              \* where execute is: loop, authorize, operation, gateway, returned, thrown
    now,             \* the wall clock, in milliseconds
    inFlight,        \* the request execute awaits
    trace,           \* every request issued and every response received, in order
    authLog,         \* every call of getPayoutAuthToken with how it ended
    returnData,      \* the results pushed so far
    thrown,          \* the message of the error execute raised
    call             \* a static helper called on its own: arguments and return value

vars == <<credentials, items, continueOnFail, i, pc, now, inFlight, trace,
          authLog, returnData, thrown, call>>

\* no helper is called on its own while execute runs
NoCall == [fn |-> "none", args |-> <<>>, returned |-> FALSE, value |-> <<>>]

NoError == <<>>

Init ==
    /\ credentials \in CredentialSets
    /\ items \in Batches
    /\ continueOnFail \in BOOLEAN
    /\ i = 0
    /\ pc = "loop"
    /\ now = 0
    /\ inFlight = NoRequest
    /\ trace = <<>>
    /\ authLog = <<>>
    /\ returnData = <<>>
    /\ thrown = NoError
    /\ call = NoCall

operation == items[i + 1]

\* the clock after a request has settled; time passes while execute awaits
ClockAfterAwait ==
    IF now + ClockStep <= MaxNow THEN now + ClockStep ELSE MaxNow

\* a request goes out, at the current clock
RequestEvent(req) == [ev |-> "request", item |-> req.item, op |-> req.op,
                      at |-> now, req |-> req, resp |-> NoResponse]
\* its response comes in, after the time the request took
ResponseEvent(req, resp) == [ev |-> "response", item |-> req.item, op |-> req.op,
                             at |-> ClockAfterAwait, req |-> req, resp |-> resp]

\* a bug Catch could have: the failed item is tried again
Catch_Retry(errorMessage) ==
    /\ pc' = "loop"
    /\ UNCHANGED <<i, returnData, thrown>>

\* a bug Catch could have: the error is swallowed whatever continueOnFail
\* says, and the loop goes on
Catch_Swallow(errorMessage) ==
    /\ returnData' = Append(returnData,
                            [item |-> i, error |-> TRUE, message |-> errorMessage,
                             json |-> JsonNull])
    /\ i' = i + 1
    /\ pc' = "loop"
    /\ thrown' = thrown

\* a bug Catch could have: the continue is missing, the error marker is pushed
\* and the error is thrown all the same
Catch_NoContinue(errorMessage) ==
    /\ returnData' = IF continueOnFail
                     THEN Append(returnData,
                                 [item |-> i, error |-> TRUE,
                                  message |-> errorMessage, json |-> JsonNull])
                     ELSE returnData
    /\ pc' = "thrown"
    /\ thrown' = errorMessage
    /\ i' = i

\* the catch block of the item loop
Catch(errorMessage) ==
    IF continueOnFail
    THEN /\ returnData' = Append(returnData,
                                 [item |-> i, error |-> TRUE, message |-> errorMessage,
                                  json |-> JsonNull])
         /\ i' = i + 1
         /\ pc' = "loop"
         /\ thrown' = thrown
    ELSE /\ pc' = "thrown"
         /\ thrown' = errorMessage
         /\ UNCHANGED <<i, returnData>>

\* the end of the try block: the response becomes the item's result
PushResult(responseData) ==
    /\ returnData' = Append(returnData,
                            [item |-> i, error |-> FALSE, message |-> <<>>,
                             json |-> responseData])
    /\ i' = i + 1
    /\ pc' = "loop"
    /\ thrown' = thrown

PayoutCredentialsMissing ==
    \/ Falsy(credentials.payoutClientId)
    \/ Falsy(credentials.payoutClientSecret)
    \/ Falsy(credentials.payoutPublicKey)

GatewayCredentialsMissing ==
    Falsy(credentials.clientId) \/ Falsy(credentials.clientSecret)

PayoutCredentialsMessage ==
    <<"Payout Client ID, Client Secret, and Public Key are required for Cashgram operations. Please configure them in the credentials.">>
GatewayCredentialsMessage ==
    <<"Client ID and Client Secret are required for Payment Gateway operations (orders, payment links, refunds). Please configure them in the credentials.">>

\* the credential check at the head of the try block throws
CredentialCheckFails ==
    /\ pc = "loop" /\ i < Len(items)
    /\ \/ /\ operation \in PayoutOperations
          /\ PayoutCredentialsMissing
          /\ Catch(PayoutCredentialsMessage)
       \/ /\ operation \notin PayoutOperations
          /\ GatewayCredentialsMissing
          /\ Catch(GatewayCredentialsMessage)
    /\ UNCHANGED <<call, credentials, items, continueOnFail, now, inFlight, trace, authLog>>

\* the arguments the two call sites pass to getPayoutAuthToken
AuthArguments(op) ==
    IF op = "createCashgram"
    THEN [clientId |-> Trim(credentials.payoutClientId),
          clientSecret |-> Trim(credentials.payoutClientSecret),
          publicKey |-> credentials.payoutPublicKey,
          environment |-> credentials.environment]
    ELSE [clientId |-> credentials.payoutClientId,
          clientSecret |-> credentials.payoutClientSecret,
          publicKey |-> credentials.payoutPublicKey,
          environment |-> credentials.environment]

AuthLogEntry(args, resp, result) ==
    [item |-> i, args |-> args, resp |-> resp, result |-> result]

\* getPayoutAuthToken is entered with the clock at t: it validates, signs and
\* issues its fetch, or throws into the catch block
EnterGetPayoutAuthToken(t) ==
    LET args == AuthArguments(operation)
        begun == AuthorizeBegin(i, args.clientId, args.clientSecret,
                                args.publicKey, args.environment, t)
    IN  /\ now' = now
        /\ IF begun.ok
           THEN /\ inFlight' = begun.request
                /\ trace' = Append(trace, RequestEvent(begun.request))
                /\ pc' = "authorize"
                /\ UNCHANGED <<i, returnData, thrown, authLog>>
           ELSE /\ authLog' = Append(authLog,
                        AuthLogEntry(args, NoResponse,
                            [ok |-> FALSE, token |-> NoToken, msg |-> begun.msg]))
                /\ Catch(begun.msg)
                /\ UNCHANGED <<inFlight, trace>>

\* a bug StartPayout could have: a token an earlier item obtained is kept and
\* reused, and the authorize exchange is skipped
StartPayout_CachedToken ==
    /\ pc = "loop" /\ i < Len(items)
    /\ operation \in PayoutOperations
    /\ ~PayoutCredentialsMissing
    /\ LET granted == {k \in 1..Len(authLog) : authLog[k].result.ok} IN
       IF granted # {}
       THEN LET last == CHOOSE k \in granted : \A j \in granted : j <= k
                request == OperationRequest(i, operation, Parameters(i),
                                            authLog[last].result.token,
                                            credentials.environment)
            IN  /\ inFlight' = request
                /\ trace' = Append(trace, RequestEvent(request))
                /\ pc' = "operation"
                /\ UNCHANGED <<i, now, returnData, thrown, authLog>>
       ELSE EnterGetPayoutAuthToken(now)
    /\ UNCHANGED <<call, credentials, items, continueOnFail>>

\* a bug StartPayout could have: the clock is read once when the batch
\* starts, and every item signs with that reading
StartPayout_BatchClock ==
    /\ pc = "loop" /\ i < Len(items)
    /\ operation \in PayoutOperations
    /\ ~PayoutCredentialsMissing
    /\ EnterGetPayoutAuthToken(0)
    /\ UNCHANGED <<call, credentials, items, continueOnFail>>

\* a payout item from the loop head to the first await: the credential check
\* passes and getPayoutAuthToken is called, reading the clock once
StartPayout ==
    /\ pc = "loop" /\ i < Len(items)
    /\ operation \in PayoutOperations
    /\ ~PayoutCredentialsMissing
    /\ EnterGetPayoutAuthToken(now)
    /\ UNCHANGED <<call, credentials, items, continueOnFail>>

\* a bug AuthorizeSettles could have: one headers object is shared by the two
\* fetches, so the operation request carries the authorize headers along with
\* the bearer token
AuthorizeSettles_SharedHeaders ==
    /\ pc = "authorize"
    /\ \E response \in AuthorizeResponses :
        LET result == AuthorizeEnd(response)
            args == AuthArguments(operation)
            plain == OperationRequest(i, operation, Parameters(i), result.token,
                                      credentials.environment)
            request == [plain EXCEPT !.headers =
                            [ContentType |-> plain.headers.ContentType,
                             Authorization |-> plain.headers.Authorization,
                             XClientId |-> inFlight.headers.XClientId,
                             XClientSecret |-> inFlight.headers.XClientSecret,
                             XCfSignature |-> inFlight.headers.XCfSignature]]
            received == Append(trace, ResponseEvent(inFlight, response))
        IN  /\ authLog' = Append(authLog, AuthLogEntry(args, response, result))
            /\ IF result.ok
               THEN /\ inFlight' = request
                    /\ trace' = Append(received, RequestEvent(request))
                    /\ pc' = "operation"
                    /\ UNCHANGED <<i, returnData, thrown>>
               ELSE /\ inFlight' = NoRequest
                    /\ trace' = received
                    /\ Catch(result.msg)
    /\ now' = ClockAfterAwait
    /\ UNCHANGED <<call, credentials, items, continueOnFail>>

\* the authorize fetch settles: getPayoutAuthToken returns the token and the
\* operation request goes out, or it throws
AuthorizeSettles ==
    /\ pc = "authorize"
    /\ \E response \in AuthorizeResponses :
        LET result == AuthorizeEnd(response)
            args == AuthArguments(operation)
            request == OperationRequest(i, operation, Parameters(i), result.token,
                                        credentials.environment)
            received == Append(trace, ResponseEvent(inFlight, response))
        IN  /\ authLog' = Append(authLog, AuthLogEntry(args, response, result))
            /\ IF result.ok
               THEN /\ inFlight' = request
                    /\ trace' = Append(received, RequestEvent(request))
                    /\ pc' = "operation"
                    /\ UNCHANGED <<i, returnData, thrown>>
               ELSE /\ inFlight' = NoRequest
                    /\ trace' = received
                    /\ Catch(result.msg)
    /\ now' = ClockAfterAwait
    /\ UNCHANGED <<call, credentials, items, continueOnFail>>

\* a bug OperationSettles could have: the fetch is given a deadline, and when
\* it passes the item fails without a response having come in
OperationSettles_Timeout ==
    /\ pc = "operation"
    /\ \/ \E response \in OperationResponses :
            LET result == OperationEnd(operation, response) IN
            /\ trace' = Append(trace, ResponseEvent(inFlight, response))
            /\ inFlight' = NoRequest
            /\ IF result.ok THEN PushResult(result.json) ELSE Catch(result.msg)
       \/ /\ trace' = trace
          /\ inFlight' = NoRequest
          /\ Catch(<<"The operation was aborted due to timeout">>)
    /\ now' = ClockAfterAwait
    /\ UNCHANGED <<call, credentials, items, continueOnFail, authLog>>

\* the operation fetch settles
OperationSettles ==
    /\ pc = "operation"
    /\ \E response \in OperationResponses :
        LET result == OperationEnd(operation, response) IN
        /\ trace' = Append(trace, ResponseEvent(inFlight, response))
        /\ inFlight' = NoRequest
        /\ IF result.ok THEN PushResult(result.json) ELSE Catch(result.msg)
    /\ now' = ClockAfterAwait
    /\ UNCHANGED <<call, credentials, items, continueOnFail, authLog>>

SandboxGatewayBase == <<"https://sandbox.cashfree.com/pg">>
ProductionGatewayBase == <<"https://api.cashfree.com/pg">>

\* the createOrder request handed to this.helpers.request
GatewayRequest(item, op) ==
    [item |-> item, op |-> op, method |-> "POST",
     host |-> IF credentials.environment = "sandbox"
              THEN SandboxGatewayBase ELSE ProductionGatewayBase,
     path |-> <<"/orders">>,
     headers |-> [ContentType |-> <<"application/json">>,
                  xApiVersion |-> credentials.apiVersion,
                  xClientId |-> credentials.clientId,
                  xClientSecret |-> credentials.clientSecret],
     body |-> NoHeaders]

\* this.helpers.request resolves with the parsed body or rejects
GatewayResponses ==
    {Rejected(<<"400 - Bad Request">>),
     HttpJson(200, JsonObject(Str(<<"ACTIVE">>), NoData, Undefined, Undefined))}

\* a bug StartGateway could have: the request is not awaited, the pending
\* promise becomes the item's result and the loop moves on
StartGateway_NoAwait ==
    /\ pc = "loop" /\ i < Len(items)
    /\ operation \in GatewayOperations
    /\ ~GatewayCredentialsMissing
    /\ inFlight' = GatewayRequest(i, operation)
    /\ trace' = Append(trace, RequestEvent(inFlight'))
    /\ PushResult(JsonNull)
    /\ UNCHANGED <<call, credentials, items, continueOnFail, now, authLog>>

\* a payment gateway item from the loop head to its await
StartGateway ==
    /\ pc = "loop" /\ i < Len(items)
    /\ operation \in GatewayOperations
    /\ ~GatewayCredentialsMissing
    /\ inFlight' = GatewayRequest(i, operation)
    /\ trace' = Append(trace, RequestEvent(inFlight'))
    /\ pc' = "gateway"
    /\ UNCHANGED <<call, credentials, items, continueOnFail, i, now, authLog,
                   returnData, thrown>>

\* the payment gateway request settles
GatewaySettles ==
    /\ pc = "gateway"
    /\ \E response \in GatewayResponses :
        /\ trace' = Append(trace, ResponseEvent(inFlight, response))
        /\ inFlight' = NoRequest
        /\ IF response.kind = "reject" THEN Catch(response.cause)
           ELSE PushResult(response.json)
    /\ now' = ClockAfterAwait
    /\ UNCHANGED <<call, credentials, items, continueOnFail, authLog>>

\* the final else of the operation chain
UnknownOperation ==
    /\ pc = "loop" /\ i < Len(items)
    /\ operation \notin PayoutOperations \cup GatewayOperations
    /\ ~GatewayCredentialsMissing
    /\ Catch(<<"Unknown operation: ", operation>>)
    /\ UNCHANGED <<call, credentials, items, continueOnFail, now, inFlight, trace, authLog>>

\* the loop ends: return [returnData]
Return ==
    /\ pc = "loop" /\ i = Len(items)
    /\ pc' = "returned"
    /\ UNCHANGED <<call, credentials, items, continueOnFail, i, now, inFlight, trace,
                   authLog, returnData, thrown>>

Next ==
    \/ CredentialCheckFails
    \/ StartPayout
    \/ AuthorizeSettles
    \/ OperationSettles
    \/ StartGateway
    \/ GatewaySettles
    \/ UnknownOperation
    \/ Return

Spec == Init /\ [][Next]_vars

(* --------------------------- derived notions -------------------------- *)

RequestIndices == {k \in 1..Len(trace) : trace[k].ev = "request"}
\* positions in the trace of the requests of item n with operation in ops
RequestsOf(n, ops) ==
    {k \in RequestIndices : trace[k].item = n /\ trace[k].op \in ops}
Succeeded(n) ==
    \E k \in 1..Len(returnData) : returnData[k].item = n /\ ~returnData[k].error
PayoutItems == {n \in 0..(Len(items) - 1) : items[n + 1] \in PayoutOperations}

TypeOK ==
    /\ credentials \in CredentialSets
    /\ items \in Batches
    /\ i \in 0..Len(items)
    /\ pc \in {"loop", "authorize", "operation", "gateway", "returned", "thrown"}
    /\ now \in 0..MaxNow

Failed(n) ==
    \/ n = i /\ pc = "thrown"
    \/ \E k \in 1..Len(returnData) : returnData[k].item = n /\ returnData[k].error

Blank(s) == \A k \in 1..Len(s) : s[k] \in {" ", "\n", "\t"}

PayoutHosts == {<<"https://sandbox.cashfree.com">>, <<"https://payout-api.cashfree.com">>}

(* ------------------------------- claims ------------------------------- *)

\* C1: every createCashgram item that ended successfully issued exactly two
\* requests, a POST to <payoutBase>/payout/v1/authorize and then a POST to
\* <payoutBase>/payout/v1/createCashgram; the authorize response of the item
\* was received between the two, and the Authorization header of the second
\* is 'Bearer ' followed by exactly the token of that response.
C1_CreateCashgramTrace ==
    \A n \in 0..(Len(items) - 1) :
        (items[n + 1] = "createCashgram" /\ Succeeded(n)) =>
            \E a, c \in {k \in RequestIndices : trace[k].item = n} :
            \E r \in (a + 1)..(c - 1) :
                /\ {k \in RequestIndices : trace[k].item = n} = {a, c}
                /\ trace[a].req.method = "POST"
                /\ trace[a].req.host \in PayoutHosts
                /\ trace[a].req.path = <<"/payout/v1/authorize">>
                /\ trace[r].ev = "response" /\ trace[r].item = n
                /\ trace[r].op = "authorize"
                /\ trace[c].req.method = "POST"
                /\ trace[c].req.host = trace[a].req.host
                /\ trace[c].req.path = <<"/payout/v1/", "createCashgram">>
                /\ trace[c].req.headers.Authorization
                       = <<"Bearer ">> \o trace[r].resp.json.data.token.val
                /\ trace[r].resp.json.data.token.val # <<>>

C1_Witness ==
    \E n \in 0..(Len(items) - 1) :
        /\ items[n + 1] = "createCashgram" /\ Succeeded(n)
        /\ credentials.payoutClientId = <<" ", "CF1", " ">>

\* C2: a payout item whose client id, client secret or public key is empty
\* after trimming fails, and no request at all is issued for it.
C2_BlankCredentialNoRequest ==
    \A n \in PayoutItems :
        (\/ Blank(credentials.payoutClientId)
         \/ Blank(credentials.payoutClientSecret)
         \/ Blank(credentials.payoutPublicKey)) =>
            /\ {k \in RequestIndices : trace[k].item = n} = {}
            /\ ~Succeeded(n)
            /\ (n < i => Failed(n))
            /\ ~(n = i /\ pc \in {"authorize", "operation", "gateway"})

\* a whitespace-only value got past the credential check of execute and the
\* item failed inside getPayoutAuthToken
C2_Witness ==
    \E n \in PayoutItems :
        /\ items[n + 1] = "deactivateCashgram"
        /\ credentials.payoutClientId = <<" ">>
        /\ ~Blank(credentials.payoutClientSecret)
        /\ ~Blank(credentials.payoutPublicKey)
        /\ Failed(n)
        /\ \E k \in 1..Len(authLog) : authLog[k].item = n

FieldNames == {"Client ID", "Client Secret", "Public Key"}

\* the first of client id, client secret, public key that is blank
FirstBlankField(args) ==
    IF Blank(args.clientId) THEN "Client ID"
    ELSE IF Blank(args.clientSecret) THEN "Client Secret"
    ELSE "Public Key"

\* C3: a call of getPayoutAuthToken with a blank identifier, secret or public
\* key raises an error that names the first blank field, in the order client
\* id, client secret, public key, and no other field.
C3_FirstMissingFieldNamed ==
    \A k \in 1..Len(authLog) :
        LET e == authLog[k] IN
        (\/ Blank(e.args.clientId)
         \/ Blank(e.args.clientSecret)
         \/ Blank(e.args.publicKey)) =>
            /\ ~e.result.ok
            /\ \A f \in FieldNames :
                   Contains(e.result.msg, <<f>>) <=> f = FirstBlankField(e.args)

\* getPayoutAuthToken was called with the secret and the key both blank and
\* the identifier not
C3_Witness ==
    \E k \in 1..Len(authLog) :
        /\ ~Blank(authLog[k].args.clientId)
        /\ Blank(authLog[k].args.clientSecret)
        /\ Blank(authLog[k].args.publicKey)
        /\ Contains(authLog[k].result.msg, <<"Client Secret">>)

AuthorizeRequests == {k \in RequestIndices : trace[k].op = "authorize"}
OperationRequests == {k \in RequestIndices : trace[k].op \in PayoutOperations}
AuthorizeReplies ==
    {k \in 1..Len(trace) : trace[k].ev = "response" /\ trace[k].op = "authorize"}
Epochs == 0..(MaxNow \div 1000)

\* C4: in every authorize request the signing subject that was encrypted is
\* the value of the X-Client-Id header of that request (the trimmed
\* identifier), a dot and an epoch.
C4_SubjectIsTrimmedIdentifier ==
    \A k \in AuthorizeRequests :
        \E e \in Epochs :
            trace[k].req.headers.XCfSignature.plain
                = trace[k].req.headers.XClientId \o <<".">> \o Digits(e)

\* C5: no request is retried: whatever happens, an item has at most one
\* authorize request and at most one operation request.
C5_NoRetry ==
    \A n \in 0..(Len(items) - 1) :
        /\ Cardinality(RequestsOf(n, {"authorize"})) <= 1
        /\ Cardinality(RequestsOf(n, PayoutOperations \cup GatewayOperations)) <= 1

\* the batch ran to its end although one item failed at its authorize request
\* and another at its operation request
C5_Witness ==
    /\ pc = "returned"
    /\ \E n, m \in 0..(Len(items) - 1) :
        /\ Failed(n) /\ RequestsOf(n, {"authorize"}) # {}
        /\ RequestsOf(n, PayoutOperations) = {}
        /\ Failed(m) /\ RequestsOf(m, PayoutOperations) # {}

\* the authorize stage failed: no response, a non-success status, or a body
\* that is not a SUCCESS object with a non-empty token
AuthorizeStageFailed(resp) ==
    \/ resp.kind # "http"
    \/ resp.status < 200 \/ resp.status > 299
    \/ ~resp.parses
    \/ resp.json.type # "object"
    \/ resp.json.status # [type |-> "string", val |-> <<"SUCCESS">>]
    \/ resp.json.data.type # "object"
    \/ resp.json.data.token.type # "string"
    \/ resp.json.data.token.val = <<>>

\* C6: an item whose authorize stage failed sends no createCashgram or
\* deactivateCashgram request, is never waiting for one, and has no result
\* other than its failure.
C6_TerminalOnAuthorizeFailure ==
    \A r \in AuthorizeReplies :
        AuthorizeStageFailed(trace[r].resp) =>
            /\ RequestsOf(trace[r].item, PayoutOperations) = {}
            /\ ~Succeeded(trace[r].item)
            /\ ~(i = trace[r].item /\ pc = "operation")
            /\ (trace[r].item < i => Failed(trace[r].item))

\* an item got status ERROR together with a token, failed, and the batch went
\* on to its end
C6_Witness ==
    /\ pc = "returned"
    /\ \E r \in AuthorizeReplies :
        /\ trace[r].resp.kind = "http" /\ trace[r].resp.status = 200
        /\ trace[r].resp.json.status.val = <<"ERROR">>
        /\ trace[r].resp.json.data.token.val # <<>>
        /\ Failed(trace[r].item)

\* C7: an authorize response with a success status and a parsed body ends
\* getPayoutAuthToken in exactly one of three ways: it returns data.token if
\* and only if status is SUCCESS and the token is non-empty; if status is
\* ERROR it fails with the upstream-API error that carries message and
\* subCode; in every other case it fails with an error that includes the
\* response as JSON text.
C7_AuthorizeBodyClassified ==
    \A k \in 1..Len(authLog) :
        LET e == authLog[k]
            j == e.resp.json
            granted == /\ j.type = "object"
                       /\ j.status = [type |-> "string", val |-> <<"SUCCESS">>]
                       /\ j.data.type = "object"
                       /\ j.data.token.type = "string"
                       /\ j.data.token.val # <<>>
            isError == j.status = [type |-> "string", val |-> <<"ERROR">>]
            apiError == Contains(e.result.msg, <<"Cashfree API Error: ">>)
        IN  (e.resp.kind = "http" /\ e.resp.status \in 200..299 /\ e.resp.parses) =>
            /\ e.result.ok <=> granted
            /\ granted => e.result.token = j.data.token /\ e.result.msg = <<>>
            /\ (~granted /\ isError) =>
                   /\ apiError
                   /\ Contains(e.result.msg, ToStr(j.message))
                   /\ Contains(e.result.msg, ToStr(j.subCode))
            /\ (~granted /\ ~isError) =>
                   /\ ~apiError
                   /\ Contains(e.result.msg, Stringify(j))

\* getPayoutAuthToken has met status SUCCESS with an empty token, and a body
\* whose status is neither SUCCESS nor ERROR
C7_Witness ==
    /\ \E k \in 1..Len(authLog) :
        /\ authLog[k].resp.status = 200 /\ authLog[k].resp.parses
        /\ authLog[k].resp.json.status.val = <<"SUCCESS">>
        /\ authLog[k].resp.json.data.type = "object"
        /\ authLog[k].resp.json.data.token.val = <<>>
        /\ ~authLog[k].result.ok
    /\ \E k \in 1..Len(authLog) :
        /\ authLog[k].resp.status = 200 /\ authLog[k].resp.parses
        /\ authLog[k].resp.json.status.val = <<"PENDING">>

\* C8: when the authorize endpoint answers with a non-success HTTP status,
\* getPayoutAuthToken fails, its message contains the status code and the
\* body text, and no token is taken from the body.
C8_AuthorizeHttpError ==
    \A k \in 1..Len(authLog) :
        LET e == authLog[k] IN
        (e.resp.kind = "http" /\ e.resp.status \notin 200..299) =>
            /\ ~e.result.ok
            /\ e.result.token = Undefined
            /\ Contains(e.result.msg, <<"Authorization failed: ">>)
            /\ Contains(e.result.msg, Digits(e.resp.status))
            /\ Contains(e.result.msg, e.resp.text)
            /\ RequestsOf(e.item, PayoutOperations) = {}

\* the endpoint answered 500 with a body that carries a SUCCESS token
C8_Witness ==
    \E k \in 1..Len(authLog) :
        /\ authLog[k].resp.kind = "http" /\ authLog[k].resp.status = 500
        /\ authLog[k].resp.json.data.token.val # <<>>
        /\ ~authLog[k].result.ok

\* item n has left the loop head
Started(n) == n < i \/ (n = i /\ pc # "loop")

\* the configured credentials pass the credential check, the three input
\* checks and the parsing of the key
PassesLocalChecks ==
    /\ ~Blank(credentials.payoutClientId)
    /\ ~Blank(credentials.payoutClientSecret)
    /\ ~Blank(credentials.payoutPublicKey)
    /\ generateEncryptedSignature(<<>>, credentials.payoutPublicKey).ok

\* C9: tokens are not cached across items: every payout item that passes
\* credential validation and signature generation issues its own authorize
\* request, the operation requests sent are at most as many as the authorize
\* requests, and every operation request comes after an authorize request of
\* the same item.
C9_AuthorizePerItem ==
    /\ \A n \in PayoutItems :
           (Started(n) /\ PassesLocalChecks) =>
               Cardinality(RequestsOf(n, {"authorize"})) = 1
    /\ Cardinality(OperationRequests) <= Cardinality(AuthorizeRequests)
    /\ \A c \in OperationRequests :
           \E a \in AuthorizeRequests : a < c /\ trace[a].item = trace[c].item

\* two payout items of one batch have each sent their operation request
C9_Witness ==
    \E n, m \in PayoutItems :
        /\ n < m
        /\ RequestsOf(n, PayoutOperations) # {}
        /\ RequestsOf(m, PayoutOperations) # {}

\* C10: the token of an operation request is the one the authorize response
\* of the same item returned, an item sends at most one operation request
\* with it, and a token the endpoint returned to one item only is in no
\* operation request of another item.
C10_TokenOwnedByItem ==
    /\ \A c \in OperationRequests :
           \E r \in AuthorizeReplies :
               /\ r < c
               /\ trace[r].item = trace[c].item
               /\ trace[c].req.headers.Authorization
                      = <<"Bearer ">> \o trace[r].resp.json.data.token.val
    /\ \A r \in AuthorizeReplies :
           LET token == trace[r].resp.json.data.token.val
               carriers == {c \in OperationRequests :
                              trace[c].req.headers.Authorization
                                  = <<"Bearer ">> \o token}
           IN  /\ Cardinality({c \in carriers : trace[c].item = trace[r].item}) <= 1
               /\ (\A q \in AuthorizeReplies :
                       trace[q].resp.json.data.token.val = token
                           => trace[q].item = trace[r].item)
                   => \A c \in carriers : trace[c].item = trace[r].item

\* two items of one batch obtained different tokens and each sent its own
C10_Witness ==
    \E c, d \in OperationRequests :
        /\ trace[c].item < trace[d].item
        /\ trace[c].req.headers.Authorization # trace[d].req.headers.Authorization

\* item n has left the loop: its result was pushed, or its error was pushed
\* or thrown
Ended(n) == Succeeded(n) \/ Failed(n)

\* C11: the items of a batch are processed one after the other: every request
\* is answered before the next one goes out, so at most one request is in
\* flight, and whenever a request of an item is in the trace every earlier
\* item has already produced its result or failed.
C11_Sequential ==
    /\ \A k \in 1..Len(trace) :
           IF trace[k].ev = "request"
           THEN k = Len(trace)
                \/ (trace[k + 1].ev = "response" /\ trace[k + 1].req = trace[k].req)
           ELSE k > 1 /\ trace[k - 1].ev = "request"
    /\ (inFlight # NoRequest) <=>
           (trace # <<>> /\ trace[Len(trace)].ev = "request")
    /\ \A k \in RequestIndices :
           /\ trace[k].item <= i
           /\ \A n \in 0..(trace[k].item - 1) :
                  /\ Ended(n)
                  /\ \A j \in RequestsOf(n, Operations \cup {"authorize"}) :
                         j + 1 < k /\ trace[j + 1].ev = "response"

\* two items of one batch have each sent a request, and the second one's is
\* still in flight
C11_Witness ==
    /\ inFlight # NoRequest
    /\ \E k, j \in RequestIndices : trace[k].item < trace[j].item

\* positions in the trace of the responses item n received
ResponsesOf(n) ==
    {k \in 1..Len(trace) : trace[k].ev = "response" /\ trace[k].item = n}

\* the messages of the errors item n ran into, read off its operation, the
\* credentials and the responses it received
FailureMessages(n) ==
    LET op == items[n + 1] IN
    (IF op \in PayoutOperations /\ PayoutCredentialsMissing
     THEN {PayoutCredentialsMessage} ELSE {})
    \cup (IF op \notin PayoutOperations /\ GatewayCredentialsMissing
          THEN {GatewayCredentialsMessage} ELSE {})
    \cup (IF op \notin PayoutOperations \cup GatewayOperations
             /\ ~GatewayCredentialsMissing
          THEN {<<"Unknown operation: ", op>>} ELSE {})
    \cup {authLog[k].result.msg :
            k \in {j \in 1..Len(authLog) :
                     authLog[j].item = n /\ ~authLog[j].result.ok}}
    \cup {OperationEnd(op, trace[k].resp).msg :
            k \in {j \in ResponsesOf(n) :
                     /\ trace[j].op \in PayoutOperations
                     /\ ~OperationEnd(op, trace[j].resp).ok}}
    \cup {trace[k].resp.cause :
            k \in {j \in ResponsesOf(n) :
                     /\ trace[j].op \in GatewayOperations
                     /\ trace[j].resp.kind = "reject"}}

\* C12: with continue-on-failure enabled execute never throws: every item
\* that has left the loop has exactly one entry in the result list, at the
\* position of its index and paired with it; the entry of an item that failed
\* is the error marker carrying the message of its failure, the entry of an
\* item that succeeded is the body of the last response it received; and
\* execute returns only when every item has its entry.
C12_ContinueOnFail ==
    continueOnFail =>
        /\ pc # "thrown" /\ thrown = NoError
        /\ Len(returnData) = i
        /\ pc = "returned" => i = Len(items)
        /\ \A k \in 1..Len(returnData) :
               LET n == k - 1
                   entry == returnData[k]
                   last == CHOOSE r \in ResponsesOf(n) :
                               \A q \in ResponsesOf(n) : q <= r
               IN  /\ entry.item = n
                   /\ IF FailureMessages(n) # {}
                      THEN /\ entry.error
                           /\ FailureMessages(n) = {entry.message}
                      ELSE /\ ~entry.error
                           /\ ResponsesOf(n) # {}
                           /\ entry.json = trace[last].resp.json

\* execute returned a batch whose first item failed and whose second item
\* succeeded
C12_Witness ==
    /\ continueOnFail /\ pc = "returned"
    /\ Len(returnData) = 2
    /\ returnData[1].error /\ ~returnData[2].error

\* C13: with continue-on-failure disabled the first failing item aborts the
\* batch: as soon as an item has run into an error execute has thrown that
\* item's error, no request of a later item is in the trace, the result list
\* holds no error marker and is never returned; execute returns only when no
\* item failed.
C13_AbortOnFirstFailure ==
    ~continueOnFail =>
        /\ \A k \in 1..Len(returnData) : ~returnData[k].error
        /\ \A n \in 0..(Len(items) - 1) :
               (Started(n) /\ FailureMessages(n) # {}) =>
                   /\ pc = "thrown" /\ i = n
                   /\ FailureMessages(n) = {thrown}
                   /\ \A k \in RequestIndices : trace[k].item <= n
                   /\ inFlight = NoRequest
        /\ pc = "thrown" => FailureMessages(i) # {}
        /\ pc = "returned" =>
               /\ Len(returnData) = Len(items)
               /\ \A n \in 0..(Len(items) - 1) : FailureMessages(n) = {}

\* the first of two items failed on a response, execute threw and the second
\* item was never started
C13_Witness ==
    /\ ~continueOnFail /\ pc = "thrown"
    /\ Len(items) = 2 /\ i = 0
    /\ ResponsesOf(0) # {}
    /\ returnData = <<>>

\* positions in the trace of the responses to operation requests
OperationReplies ==
    {k \in 1..Len(trace) :
        trace[k].ev = "response" /\ trace[k].op \in PayoutOperations}

\* the message of the error item n failed with
ErrorOf(n) ==
    IF pc = "thrown" /\ i = n THEN thrown
    ELSE LET k == CHOOSE j \in 1..Len(returnData) :
                      returnData[j].item = n /\ returnData[j].error
         IN  returnData[k].message

\* C14: when the endpoint answers the operation request of createCashgram or
\* deactivateCashgram with a non-2xx status, the item fails with an error
\* whose message contains the status and the body of that response, and the
\* item issues no further request; when the answer is a 2xx JSON body, that
\* body is the item's result, unchanged.
C14_OperationOutcome ==
    \A r \in OperationReplies :
        LET n == trace[r].item
            resp == trace[r].resp
        IN  /\ \A k \in RequestIndices : trace[k].item = n => k < r
            /\ IF resp.kind = "http" /\ ~ResponseOk(resp)
               THEN /\ Failed(n)
                    /\ Contains(ErrorOf(n), Digits(resp.status))
                    /\ Contains(ErrorOf(n), resp.text)
                    /\ Contains(ErrorOf(n),
                                Digits(resp.status) \o <<" - ">> \o resp.text)
               ELSE IF resp.kind = "http" /\ resp.parses
               THEN /\ ~Failed(n)
                    /\ \E k \in 1..Len(returnData) :
                           /\ returnData[k].item = n
                           /\ ~returnData[k].error
                           /\ returnData[k].json = resp.json
               ELSE Failed(n)

\* an operation request sent with a granted token was answered 400 and the
\* item failed
C14_Witness ==
    \E r \in OperationReplies :
        /\ trace[r].resp.kind = "http"
        /\ trace[r].resp.status = 400
        /\ Failed(trace[r].item)
        /\ \E a \in AuthorizeReplies : a < r /\ trace[a].item = trace[r].item

\* C15: deactivateCashgram goes through the flow of createCashgram: for the
\* same credentials its call of getPayoutAuthToken fails with the message the
\* call of createCashgram fails with, or sends the authorize request the call
\* of createCashgram sends at that clock, and its operation request is the
\* one of createCashgram but for the path and a body of cashgramId alone.
C15_DeactivateAsCreate ==
    LET asCreate == AuthArguments("createCashgram")
        begun(n, t) == AuthorizeBegin(n, asCreate.clientId, asCreate.clientSecret,
                                      asCreate.publicKey, asCreate.environment, t)
    IN  /\ \A k \in AuthorizeRequests :
               items[trace[k].item + 1] = "deactivateCashgram" =>
                   /\ begun(trace[k].item, trace[k].at).ok
                   /\ trace[k].req = begun(trace[k].item, trace[k].at).request
        /\ \A k \in 1..Len(authLog) :
               (/\ items[authLog[k].item + 1] = "deactivateCashgram"
                /\ authLog[k].resp = NoResponse) =>
                   /\ ~begun(authLog[k].item, 0).ok
                   /\ authLog[k].result.msg = begun(authLog[k].item, 0).msg
        /\ \A c \in OperationRequests :
               trace[c].op = "deactivateCashgram" =>
                   LET n == trace[c].item
                       token == [type |-> "string",
                                 val |-> SubSeq(trace[c].req.headers.Authorization, 2,
                                                Len(trace[c].req.headers.Authorization))]
                       create == OperationRequest(n, "createCashgram", Parameters(n),
                                                  token, credentials.environment)
                   IN  /\ trace[c].req.path = <<"/payout/v1/">> \o <<"deactivateCashgram">>
                       /\ trace[c].req.body = [cashgramId |-> Parameters(n).cashgramId]
                       /\ trace[c].req.host = create.host
                       /\ trace[c].req.method = create.method
                       /\ trace[c].req.headers = create.headers

\* the environment the credentials are not set to
OtherEnvironment == IF credentials.environment = "sandbox" THEN "production"
                    ELSE "sandbox"

\* the token an operation request carries after the Bearer scheme
BearerToken(req) ==
    Str(SubSeq(req.headers.Authorization, 2, Len(req.headers.Authorization)))

\* C16: the environment selects the host and nothing else: what a payout item
\* does with the credentials set to the other environment (the failure of
\* getPayoutAuthToken before its fetch, the authorize request at the same
\* clock, the operation request with the same token) is what it did, but for
\* the host of the requests; the two environments have different hosts, and
\* the authorize and the operation request of one item go to the same host.
C16_EnvironmentSelectsHost ==
    LET twin(n, t) ==
            LET args == AuthArguments(items[n + 1]) IN
            AuthorizeBegin(n, args.clientId, args.clientSecret, args.publicKey,
                           OtherEnvironment, t)
    IN  /\ \A k \in AuthorizeRequests :
               LET req == trace[k].req
                   other == twin(req.item, trace[k].at)
               IN  /\ other.ok
                   /\ other.request.host # req.host
                   /\ [other.request EXCEPT !.host = req.host] = req
        /\ \A k \in 1..Len(authLog) :
               authLog[k].resp = NoResponse =>
                   /\ ~twin(authLog[k].item, 0).ok
                   /\ twin(authLog[k].item, 0).msg = authLog[k].result.msg
        /\ \A c \in OperationRequests :
               LET req == trace[c].req
                   other == OperationRequest(req.item, req.op, Parameters(req.item),
                                             BearerToken(req), OtherEnvironment)
               IN  /\ other.host # req.host
                   /\ [other EXCEPT !.host = req.host] = req
                   /\ \A a \in RequestsOf(req.item, {"authorize"}) :
                          trace[a].req.host = req.host

\* a payout item has sent its authorize and its operation request with the
\* credentials set to production
C16_Witness ==
    /\ OperationRequests # {}
    /\ \A c \in OperationRequests : trace[c].req.host = ProductionPayoutHost
    /\ credentials.environment = "production"

\* the last n elements of s
Suffix(s, n) == SubSeq(s, Len(s) - n + 1, Len(s))

\* the epoch second of the clock at the moment event k entered the trace
EpochAt(k) == trace[k].at \div 1000

\* C17: the signing subject is made anew for every authorization: the epoch
\* in the plaintext of the signature of an authorize request is the clock at
\* the moment that request went out, in whole seconds; it is no earlier than
\* the clock at any earlier event of the batch, so no earlier than the end of
\* the previous item, and the epochs of successive authorize requests never
\* decrease.
C17_FreshEpoch ==
    \A k \in AuthorizeRequests :
        LET plain == trace[k].req.headers.XCfSignature.plain
            stamp == <<".">> \o Digits(EpochAt(k))
        IN  /\ Len(plain) >= Len(stamp)
            /\ Suffix(plain, Len(stamp)) = stamp
            /\ \A j \in 1..(k - 1) : EpochAt(j) <= EpochAt(k)
            /\ \A j \in AuthorizeRequests :
                   j < k => \E e \in 0..EpochAt(k) :
                                LET earlier == trace[j].req.headers.XCfSignature.plain
                                IN  Suffix(earlier, Len(Digits(e)) + 1)
                                        = <<".">> \o Digits(e)

\* two items of one batch signed subjects with different epochs
C17_Witness ==
    \E j, k \in AuthorizeRequests :
        /\ trace[j].item < trace[k].item
        /\ EpochAt(j) < EpochAt(k)
        /\ Suffix(trace[j].req.headers.XCfSignature.plain, 1)
               # Suffix(trace[k].req.headers.XCfSignature.plain, 1)

\* the credentials pass the checks on blank fields and the configured key is
\* not one RSA-OAEP can encrypt under
SignatureMustFail ==
    /\ ~Blank(credentials.payoutClientId)
    /\ ~Blank(credentials.payoutClientSecret)
    /\ ~Blank(credentials.payoutPublicKey)
    /\ CleanPublicKey(credentials.payoutPublicKey) \notin ValidSpkiBlobs

\* the message of the error node:crypto throws for the configured key
SignatureCause ==
    IF CleanPublicKey(credentials.payoutPublicKey) \in NonRsaSpkiBlobs
    THEN EncryptError ELSE KeyParseError

\* C18: when the signature cannot be generated (a key that does not parse, a
\* key of the wrong type) the payout item fails with an error that wraps the
\* message of the underlying cause, it issues no request at all, and
\* getPayoutAuthToken, and with it the signature generation, ran exactly once
\* for it.
C18_SignatureFailure ==
    \A n \in PayoutItems :
        (Started(n) /\ SignatureMustFail) =>
            LET calls == {k \in 1..Len(authLog) : authLog[k].item = n} IN
            /\ RequestsOf(n, Operations \cup {"authorize"}) = {}
            /\ ResponsesOf(n) = {}
            /\ Cardinality(calls) = 1
            /\ \A k \in calls :
                   /\ ~authLog[k].result.ok
                   /\ authLog[k].resp = NoResponse
            /\ Failed(n)
            /\ ErrorOf(n) = AuthFailurePrefix \o <<"Failed to generate signature: ">>
                                \o SignatureCause
            /\ Contains(ErrorOf(n), SignatureCause)

\* an item failed on a key of the wrong type and the next item of the batch
\* failed on it again
C18_Witness ==
    /\ SignatureMustFail
    /\ SignatureCause = EncryptError
    /\ \E n, m \in PayoutItems : n < m /\ Failed(n) /\ Failed(m)
    /\ trace = <<>>

\* the tokens the authorize endpoint has handed out so far
GrantedTokens ==
    {authLog[k].result.token.val :
        k \in {j \in 1..Len(authLog) : authLog[j].result.ok}}

\* positions in the trace of the requests that carry a signature header
SignatureCarriers ==
    {k \in RequestIndices : "XCfSignature" \in DOMAIN trace[k].req.headers}

\* the string s shows up in the text fields of the record f
AppearsIn(s, f) == \E h \in DOMAIN f : Contains(f[h], s)

\* C19: the secrets stay where they belong. A signature is sent in one request
\* only, the authorize request of the item whose call of getPayoutAuthToken
\* made it; the operation requests carry the content type and the bearer
\* header and nothing else, and neither the client secret nor a signature is
\* in them; no token the endpoint has handed out is in an authorize request.
C19_SecretsConfined ==
    /\ SignatureCarriers = AuthorizeRequests
    /\ \A n \in PayoutItems :
           /\ Cardinality({k \in SignatureCarriers : trace[k].item = n}) <= 1
           /\ \A k \in SignatureCarriers :
                  trace[k].item = n =>
                      trace[k].req.headers.XCfSignature.plain
                          = createClientIdWithTimestamp(
                                AuthArguments(items[n + 1]).clientId, trace[k].at)
    /\ \A c \in OperationRequests :
           LET req == trace[c].req IN
           /\ DOMAIN req.headers = {"ContentType", "Authorization"}
           /\ ~AppearsIn(Trim(credentials.payoutClientSecret), req.headers)
           /\ ~AppearsIn(Trim(credentials.payoutClientSecret), req.body)
           /\ ~Contains(req.path, Trim(credentials.payoutClientSecret))
    /\ \A a \in AuthorizeRequests :
           LET req == trace[a].req
               texts == [h \in DOMAIN req.headers \ {"XCfSignature"} |-> req.headers[h]]
           IN  /\ DOMAIN req.headers
                      = {"ContentType", "XClientId", "XClientSecret", "XCfSignature"}
               /\ req.body = NoHeaders
               /\ \A token \in GrantedTokens :
                      /\ ~AppearsIn(token, texts)
                      /\ ~Contains(req.headers.XCfSignature.plain, token)
                      /\ ~Contains(req.path, token)

\* the second item of a batch sent its authorize request after the first one
\* had been granted a token and had sent it in its operation request
C19_Witness ==
    \E c \in OperationRequests, a \in AuthorizeRequests :
        /\ c < a
        /\ trace[c].item < trace[a].item
        /\ GrantedTokens # {}

\* the events of item n, in the order of the trace
ItemEvents(n) == SelectSeq(trace, LAMBDA e : e.item = n)

\* what item n does when it is run on its own: the requests it sends and the
\* entry it pushes, computed from the credentials, its operation and
\* parameters, the responses to its own requests and the clock t at its start
Replay(n, responses, t) ==
    LET op == items[n + 1]
        args == AuthArguments(op)
        begun == AuthorizeBegin(n, args.clientId, args.clientSecret,
                                args.publicKey, args.environment, t)
        reply(k) == IF k <= Len(responses) THEN responses[k] ELSE NoResponse
        granted == AuthorizeEnd(reply(1))
        request == OperationRequest(n, op, Parameters(n), granted.token,
                                    credentials.environment)
        outcome == OperationEnd(op, reply(2))
        fails(m, sent) ==
            [requests |-> sent,
             entry |-> [item |-> n, error |-> TRUE, message |-> m, json |-> JsonNull]]
        succeeds(j, sent) ==
            [requests |-> sent,
             entry |-> [item |-> n, error |-> FALSE, message |-> <<>>, json |-> j]]
    IN  IF op \in PayoutOperations
        THEN IF PayoutCredentialsMissing THEN fails(PayoutCredentialsMessage, <<>>)
             ELSE IF ~begun.ok THEN fails(begun.msg, <<>>)
             ELSE IF ~granted.ok THEN fails(granted.msg, <<begun.request>>)
             ELSE IF ~outcome.ok THEN fails(outcome.msg, <<begun.request, request>>)
             ELSE succeeds(outcome.json, <<begun.request, request>>)
        ELSE IF GatewayCredentialsMissing THEN fails(GatewayCredentialsMessage, <<>>)
        ELSE IF op \notin GatewayOperations
        THEN fails(<<"Unknown operation: ", op>>, <<>>)
        ELSE IF reply(1).kind = "reject"
        THEN fails(reply(1).cause, <<GatewayRequest(n, op)>>)
        ELSE succeeds(reply(1).json, <<GatewayRequest(n, op)>>)

\* with continue-on-failure enabled, every item that has left the loop sent
\* the requests and pushed the entry of its replay
EndedItemsAsReplayed ==
    continueOnFail =>
        \A n \in 0..(i - 1) :
            LET ev == ItemEvents(n)
                sent == [k \in 1..((Len(ev) + 1) \div 2) |-> ev[2 * k - 1].req]
                responses == [k \in 1..(Len(ev) \div 2) |-> ev[2 * k].resp]
                replayed == Replay(n, responses, IF ev = <<>> THEN 0 ELSE ev[1].at)
            IN  /\ \A k \in 1..Len(ev) :
                       ev[k].ev = IF k % 2 = 1 THEN "request" ELSE "response"
                /\ sent = replayed.requests
                /\ n + 1 <= Len(returnData)
                /\ returnData[n + 1] = replayed.entry

\* C20: the items of a batch share no mutable state: no step of execute
\* changes the credentials, and with continue-on-failure enabled the requests
\* an item sends and the entry it pushes are those of the item run on its
\* own, from the credentials, its own parameters, the responses to its own
\* requests and the clock, whatever the earlier items did.
C20_ItemsIndependent ==
    /\ [][credentials' = credentials]_vars
    /\ []EndedItemsAsReplayed

\* a payout item succeeded right after an earlier item of the batch had
\* failed at the authorize stage
C20_Witness ==
    /\ continueOnFail
    /\ \E n \in PayoutItems :
           /\ n > 0 /\ n < i
           /\ Succeeded(n)
           /\ Failed(n - 1)
           /\ ResponsesOf(n - 1) # {}

(* ------------------- the static helpers on their own ------------------ *)

\* the largest reading of the clock a helper is called at, in milliseconds
MaxClockMs == 1999999

\* identifiers createClientIdWithTimestamp is called with
HelperIds == {<<>>, <<"CF1">>, <<" ", "CF1", " ">>, <<"a", ".", "b">>, <<"7">>}

\* readings of Date.now()
Clocks == {0, 1, 999, 1000, 1001, 1999, 59999, 123456, MaxClockMs}

\* no credentials: the helpers are static and read none
NoCredentials ==
    [payoutClientId |-> <<>>, payoutClientSecret |-> <<>>, payoutPublicKey |-> <<>>,
     environment |-> "sandbox", clientId |-> <<>>, clientSecret |-> <<>>,
     apiVersion |-> <<>>]

CallsOfCreateClientIdWithTimestamp ==
    {[fn |-> "createClientIdWithTimestamp",
      args |-> [clientId |-> id, nowMs |-> ms],
      returned |-> FALSE, value |-> <<>>] : id \in HelperIds, ms \in Clocks}

\* createClientIdWithTimestamp runs and returns
ReturnCreateClientIdWithTimestamp ==
    /\ call.fn = "createClientIdWithTimestamp" /\ ~call.returned
    /\ call' = [call EXCEPT !.returned = TRUE,
                            !.value = createClientIdWithTimestamp(call.args.clientId,
                                                                  call.args.nowMs)]
    /\ UNCHANGED <<credentials, items, continueOnFail, i, pc, now, inFlight, trace,
                   authLog, returnData, thrown>>

\* the value of a string of decimal digits
RECURSIVE ParseDecimal(_)
ParseDecimal(s) ==
    IF s = <<>> THEN 0
    ELSE 10 * ParseDecimal(SubSeq(s, 1, Len(s) - 1))
         + (CHOOSE d \in 0..9 : DigitChar[d + 1] = s[Len(s)])

\* C21: createClientIdWithTimestamp returns the identifier as given, a dot
\* and a non-empty run of decimal digits without a leading zero whose value
\* is the clock reading in whole seconds, rounded down.
C21_SubjectShape ==
    (call.fn = "createClientIdWithTimestamp" /\ call.returned) =>
        LET id == call.args.clientId
            ms == call.args.nowMs
            out == call.value
            suffix == SubSeq(out, Len(id) + 2, Len(out))
        IN  /\ Len(out) >= Len(id) + 2
            /\ SubSeq(out, 1, Len(id)) = id
            /\ out[Len(id) + 1] = "."
            /\ \A k \in 1..Len(suffix) : \E d \in 1..10 : suffix[k] = DigitChar[d]
            /\ Len(suffix) > 1 => suffix[1] # "0"
            /\ ParseDecimal(suffix) * 1000 <= ms
            /\ ms < (ParseDecimal(suffix) + 1) * 1000

\* the helper was called one millisecond before the second turned and
\* returned the second that was still running
C21_Witness ==
    /\ call.fn = "createClientIdWithTimestamp" /\ call.returned
    /\ call.args.nowMs = 1999
    /\ call.args.clientId = <<"CF1">>
    /\ call.value = <<"CF1", ".", "1">>

\* signing subjects generateEncryptedSignature is called with
HelperSubjects ==
    {<<>>, <<"CF1", ".", "1">>, <<" ", "CF1", " ", ".", "0">>,
     <<"é", ".", "5">>, <<"a", "€", "é", ".", "1", "2">>}

\* key texts generateEncryptedSignature is called with
HelperKeys == {GoodPem, <<"MIIBIjAN">>, BadPem, EcPem}

CallsOfGenerateEncryptedSignature ==
    {[fn |-> "generateEncryptedSignature",
      args |-> [clientIdWithTimestamp |-> subject, publicKeyContent |-> key],
      returned |-> FALSE, value |-> <<>>] :
        subject \in HelperSubjects, key \in HelperKeys}

\* generateEncryptedSignature runs and returns or throws
ReturnGenerateEncryptedSignature ==
    /\ call.fn = "generateEncryptedSignature" /\ ~call.returned
    /\ call' = [call EXCEPT !.returned = TRUE,
                            !.value = generateEncryptedSignature(
                                          call.args.clientIdWithTimestamp,
                                          call.args.publicKeyContent)]
    /\ UNCHANGED <<credentials, items, continueOnFail, i, pc, now, inFlight, trace,
                   authLog, returnData, thrown>>

\* the private key that matches the public key of ValidSpkiBlobs
MatchingPrivateKey == [pairOf |-> <<"MIIBIjAN">>]

\* Buffer.from(text, 'base64') on the other side
Base64Decode(text) ==
    IF text.encoding = "base64"
    THEN [ok |-> TRUE, scheme |-> text.scheme, key |-> text.key, plain |-> text.plain]
    ELSE [ok |-> FALSE, scheme |-> "none", key |-> <<>>, plain |-> <<>>]

\* crypto.privateDecrypt under RSA-OAEP with SHA-1 as hash and in MGF1
PrivateDecryptOaepSha1(privateKey, ciphertext) ==
    IF /\ ciphertext.ok
       /\ ciphertext.scheme = "RSA-OAEP-SHA1"
       /\ ciphertext.key = privateKey.pairOf
    THEN [ok |-> TRUE, bytes |-> ciphertext.plain]
    ELSE [ok |-> FALSE, bytes |-> <<>>]

\* the characters a run of UTF-8 bytes stands for
RECURSIVE Utf8Decode(_)
Utf8Decode(b) ==
    IF b = <<>> THEN <<>>
    ELSE IF Len(b) >= 2 /\ SubSeq(b, 1, 2) = <<"0xC3", "0xA9">>
    THEN <<"é">> \o Utf8Decode(SubSeq(b, 3, Len(b)))
    ELSE IF Len(b) >= 3 /\ SubSeq(b, 1, 3) = <<"0xE2", "0x82", "0xAC">>
    THEN <<"€">> \o Utf8Decode(SubSeq(b, 4, Len(b)))
    ELSE <<Head(b)>> \o Utf8Decode(Tail(b))

MaxKeyLen == 4

\* the pieces key texts are made of: the pieces of the two delimiters,
\* whitespace and a run of base64 characters
KeyTokens == {"-----BEGIN", "-----END", " ", "PUBLIC KEY-----", "\n", "MIIB"}

KeyTexts == UNION {[1..n -> KeyTokens] : n \in 0..MaxKeyLen}

CallsOfCleanPublicKey ==
    {[fn |-> "cleanedPublicKey", args |-> [publicKeyContent |-> text],
      returned |-> FALSE, value |-> <<>>] : text \in KeyTexts}

\* the cleaning of the key text at the head of generateEncryptedSignature
ReturnCleanPublicKey ==
    /\ call.fn = "cleanedPublicKey" /\ ~call.returned
    /\ call' = [call EXCEPT !.returned = TRUE,
                            !.value = CleanPublicKey(call.args.publicKeyContent)]
    /\ UNCHANGED <<credentials, items, continueOnFail, i, pc, now, inFlight, trace,
                   authLog, returnData, thrown>>

\* the text s with the run w put in after its first p tokens
InsertAt(s, p, w) == SubSeq(s, 1, p) \o w \o SubSeq(s, p + 1, Len(s))

\* what two key texts may differ in: a delimiter, a line break, a blank
Framing == {BeginMarker, EndMarker, <<"\n">>, <<" ">>}

\* the cleaned text has no whitespace and no delimiter in it, and cleaning it
\* again changes nothing
CleanedAndStable(cleaned) ==
    /\ \A k \in 1..Len(cleaned) : ~IsSpace(cleaned[k])
    /\ ~Contains(cleaned, BeginMarker)
    /\ ~Contains(cleaned, EndMarker)
    /\ CleanPublicKey(cleaned) = cleaned

RECURSIVE WellFramed(_)
WellFramed(s) ==
    \/ s = <<>>
    \/ /\ Len(s) >= 3
       /\ SubSeq(s, 1, 3) \in {BeginMarker, EndMarker}
       /\ WellFramed(SubSeq(s, 4, Len(s)))
    \/ /\ s # <<>>
       /\ Head(s) \in {" ", "\n", "MIIB"}
       /\ WellFramed(Tail(s))

\* the base64 characters of a key text
BlobOf(s) == SelectSeq(s, LAMBDA c : c = "MIIB")

InitHelpers ==
    /\ credentials = NoCredentials
    /\ items = <<>>
    /\ continueOnFail = FALSE
    /\ i = 0
    /\ pc = "helper"
    /\ now = 0
    /\ inFlight = NoRequest
    /\ trace = <<>>
    /\ authLog = <<>>
    /\ returnData = <<>>
    /\ thrown = NoError
    /\ call \in CallsOfCreateClientIdWithTimestamp
                \cup CallsOfGenerateEncryptedSignature
                \cup CallsOfCleanPublicKey

NextHelpers ==
    \/ ReturnCreateClientIdWithTimestamp
    \/ ReturnGenerateEncryptedSignature
    \/ ReturnCleanPublicKey

SpecHelpers == InitHelpers /\ [][NextHelpers]_vars

(* ---- CashfreePayments.node.ts: the node with a pre-issued payout token ---- *)

\* credentials of the token mode: the gateway pair, the payout token, the
\* environment
TokenCredentialSets ==
    [clientId : GatewayClientIds, clientSecret : {<<>>, <<"pgsecret">>},
     payoutAuthToken : {<<>>, <<"Bearer ", "pre-issued">>},
     apiVersion : {<<"2025-01-01">>}, environment : Environments]

TokenRequiredMessage ==
    <<"Payout Authorization Token is required for Cashgram operations. Please configure it in the credentials.">>

\* the base URL computed once before the loop
GatewayBaseUrl ==
    IF credentials.environment = "sandbox"
    THEN SandboxGatewayBase ELSE ProductionGatewayBase

(* the JavaScript class *)

\* the operations the JavaScript class has a branch for
JsOperations ==
    {"createOrder", "createPaymentLink", "cancelPaymentLink",
     "fetchPaymentLinkDetails", "createRefund", "createCashgram"}

\* operation values of the items: the branches, and a value none of them takes
JsItemOperations == JsOperations \cup {"deactivateCashgram"}

JsBatches == UNION {[1..n -> JsItemOperations] : n \in 0..MaxItems}

\* the link_notes parameter: JSON text, or text JSON.parse throws on
LinkNotes == {<<"{}">>, <<"{oops">>}

\* the request options the branch of op hands to this.helpers.request
JsRequest(item, op) ==
    IF op = "createCashgram"
    THEN [item |-> item, op |-> op, method |-> "POST",
          host |-> <<"https://payout-api.cashfree.com">>,
          path |-> <<"/payout/v1/createCashgram">>,
          headers |-> [Authorization |-> credentials.payoutAuthToken,
                       ContentType |-> <<"application/json">>],
          body |-> [cashgramId |-> Parameters(item).cashgramId]]
    ELSE [item |-> item, op |-> op,
          method |-> IF op = "fetchPaymentLinkDetails" THEN "GET" ELSE "POST",
          host |-> GatewayBaseUrl,
          path |-> IF op = "createOrder" THEN <<"/orders">>
                   ELSE IF op = "createPaymentLink" THEN <<"/links">>
                   ELSE IF op = "cancelPaymentLink"
                   THEN <<"/links/", "link_1", "/cancel">>
                   ELSE IF op = "fetchPaymentLinkDetails" THEN <<"/links/", "link_1">>
                   ELSE <<"/orders/", "order_1", "/refunds">>,
          headers |-> [ContentType |-> <<"application/json">>,
                       xApiVersion |-> credentials.apiVersion,
                       xClientId |-> credentials.clientId,
                       xClientSecret |-> credentials.clientSecret],
          body |-> NoHeaders]

\* the catch block of the JavaScript loop
JsCatch(errorMessage) ==
    IF continueOnFail
    THEN /\ returnData' = Append(returnData,
                                 [error |-> TRUE, message |-> errorMessage,
                                  json |-> JsonNull])
         /\ i' = i + 1
         /\ pc' = "loop"
         /\ thrown' = thrown
    ELSE /\ pc' = "thrown"
         /\ thrown' = errorMessage
         /\ UNCHANGED <<i, returnData>>

\* the credential check at the head of the try block throws
JsCredentialCheckFails ==
    /\ pc = "loop" /\ i < Len(items)
    /\ \/ /\ operation = "createCashgram"
          /\ Falsy(credentials.payoutAuthToken)
          /\ JsCatch(TokenRequiredMessage)
       \/ /\ operation # "createCashgram"
          /\ GatewayCredentialsMissing
          /\ JsCatch(GatewayCredentialsMessage)
    /\ UNCHANGED <<call, credentials, items, continueOnFail, now, inFlight, trace,
                   authLog>>

JsCredentialCheckPasses ==
    IF operation = "createCashgram" THEN ~Falsy(credentials.payoutAuthToken)
    ELSE ~GatewayCredentialsMissing

\* a branch runs up to its await, or JSON.parse throws on the link notes
JsStartRequest ==
    /\ pc = "loop" /\ i < Len(items)
    /\ operation \in JsOperations
    /\ JsCredentialCheckPasses
    /\ \E linkNotes \in LinkNotes :
        IF operation = "createPaymentLink" /\ linkNotes # <<"{}">>
        THEN /\ JsCatch(<<"Invalid JSON in Link Notes: ">> \o JsonSyntaxError)
             /\ UNCHANGED <<inFlight, trace>>
        ELSE /\ inFlight' = JsRequest(i, operation)
             /\ trace' = Append(trace, RequestEvent(inFlight'))
             /\ pc' = "request"
             /\ UNCHANGED <<i, returnData, thrown>>
    /\ UNCHANGED <<call, credentials, items, continueOnFail, now, authLog>>

\* this.helpers.request settles
JsRequestSettles ==
    /\ pc = "request"
    /\ \E response \in GatewayResponses :
        /\ trace' = Append(trace, ResponseEvent(inFlight, response))
        /\ inFlight' = NoRequest
        /\ IF response.kind = "reject" THEN JsCatch(response.cause)
           ELSE /\ returnData' = Append(returnData,
                                        [error |-> FALSE, message |-> <<>>,
                                         json |-> response.json])
                /\ i' = i + 1
                /\ pc' = "loop"
                /\ thrown' = thrown
    /\ now' = ClockAfterAwait
    /\ UNCHANGED <<call, credentials, items, continueOnFail, authLog>>

\* no branch takes the operation and the chain has no final else: the item
\* is passed over
JsNoBranch ==
    /\ pc = "loop" /\ i < Len(items)
    /\ operation \notin JsOperations
    /\ JsCredentialCheckPasses
    /\ i' = i + 1
    /\ UNCHANGED <<call, credentials, items, continueOnFail, pc, now, inFlight, trace,
                   authLog, returnData, thrown>>

\* return [this.helpers.returnJsonArray(returnData)]
JsReturn ==
    /\ pc = "loop" /\ i = Len(items)
    /\ pc' = "returned"
    /\ UNCHANGED <<call, credentials, items, continueOnFail, i, now, inFlight, trace,
                   authLog, returnData, thrown>>

InitJs ==
    /\ credentials \in TokenCredentialSets
    /\ items \in JsBatches
    /\ continueOnFail \in BOOLEAN
    /\ i = 0
    /\ pc = "loop"
    /\ now = 0
    /\ inFlight = NoRequest
    /\ trace = <<>>
    /\ authLog = <<>>
    /\ returnData = <<>>
    /\ thrown = NoError
    /\ call = NoCall

NextJs ==
    \/ JsCredentialCheckFails
    \/ JsStartRequest
    \/ JsRequestSettles
    \/ JsNoBranch
    \/ JsReturn

SpecJs == InitJs /\ [][NextJs]_vars

\* hosts of the production and of the sandbox APIs
ProductionHosts == {ProductionGatewayBase, ProductionPayoutHost}
SandboxHosts == {SandboxGatewayBase, SandboxPayoutHost}

\* C23: whatever the operation, with the credentials set to sandbox no
\* request goes to a production host, and with the credentials set to
\* production no request goes to a sandbox host.
C23_RequestsStayInEnvironment ==
    \A k \in RequestIndices :
        /\ credentials.environment = "sandbox" =>
               trace[k].req.host \notin ProductionHosts
        /\ credentials.environment = "production" =>
               trace[k].req.host \notin SandboxHosts

(* the TypeScript class *)

\* the operations the TypeScript class has a branch for
TsOperations ==
    {"createOrder", "createPaymentLink", "cancelPaymentLink",
     "fetchPaymentLinkDetails", "getOrdersForPaymentLink", "createRefund",
     "getAllRefundsForOrder", "createCashgram", "deactivateCashgram"}

TsItemOperations == TsOperations \cup {"archiveOrder"}

TsBatches == UNION {[1..n -> TsItemOperations] : n \in 0..MaxItems}

\* the operations that create or deactivate a Cashgram
CashgramOperations == {"createCashgram", "deactivateCashgram"}

\* the object a branch of the TypeScript class assigns to responseData
Placeholder(op) ==
    JsonObject(Undefined, NoData,
               Str(<<op, " operation - TypeScript implementation needed">>),
               Undefined)

\* the credential check at the head of the try block throws
TsCredentialCheckFails ==
    /\ pc = "loop" /\ i < Len(items)
    /\ \/ /\ operation = "createCashgram"
          /\ Falsy(credentials.payoutAuthToken)
          /\ Catch(TokenRequiredMessage)
       \/ /\ operation # "createCashgram"
          /\ GatewayCredentialsMissing
          /\ Catch(GatewayCredentialsMessage)
    /\ UNCHANGED <<call, credentials, items, continueOnFail, now, inFlight, trace,
                   authLog>>

\* the credential check passes and the branch of the operation runs: it
\* issues no request and yields its placeholder, which is pushed
TsBranch ==
    /\ pc = "loop" /\ i < Len(items)
    /\ operation \in TsOperations
    /\ JsCredentialCheckPasses
    /\ PushResult(Placeholder(operation))
    /\ UNCHANGED <<call, credentials, items, continueOnFail, now, inFlight, trace,
                   authLog>>

\* the final else of the operation chain
TsUnknownOperation ==
    /\ pc = "loop" /\ i < Len(items)
    /\ operation \notin TsOperations
    /\ JsCredentialCheckPasses
    /\ Catch(<<"Unknown operation: ", operation>>)
    /\ UNCHANGED <<call, credentials, items, continueOnFail, now, inFlight, trace,
                   authLog>>

InitTs ==
    /\ credentials \in TokenCredentialSets
    /\ items \in TsBatches
    /\ continueOnFail \in BOOLEAN
    /\ i = 0
    /\ pc = "loop"
    /\ now = 0
    /\ inFlight = NoRequest
    /\ trace = <<>>
    /\ authLog = <<>>
    /\ returnData = <<>>
    /\ thrown = NoError
    /\ call = NoCall

NextTs ==
    \/ TsCredentialCheckFails
    \/ TsBranch
    \/ TsUnknownOperation
    \/ Return

SpecTs == InitTs /\ [][NextTs]_vars

\* C24: a Cashgram operation run with an empty payout authorization token
\* fails without having issued a request, and an operation that is not a
\* Cashgram operation never fails with the error of the missing token.
C24_TokenForCashgramOnly ==
    \A n \in 0..(Len(items) - 1) :
        (n < i \/ (n = i /\ pc = "thrown")) =>
            IF items[n + 1] \in CashgramOperations
            THEN Falsy(credentials.payoutAuthToken) =>
                     /\ Failed(n)
                     /\ RequestsOf(n, TsItemOperations) = {}
            ELSE Failed(n) => ErrorOf(n) # TokenRequiredMessage

(* --------------- execute with any value of the environment ------------- *)

\* values the environment field can hold: the two options, and values that
\* are neither (not set, empty, other case, padded, misspelled)
AnyEnvironments ==
    {"sandbox", "production", "(undefined)", "", "Sandbox", "SANDBOX",
     "sandbox ", "sanbox"}

EnvCredentialSets ==
    [payoutClientId : {<<>>, <<"CF1">>}, payoutClientSecret : {<<"s3cret">>},
     payoutPublicKey : {GoodPem}, environment : AnyEnvironments,
     clientId : GatewayClientIds, clientSecret : {<<"pgsecret">>},
     apiVersion : {<<"2025-01-01">>}]

InitEnv ==
    /\ credentials \in EnvCredentialSets
    /\ items \in Batches
    /\ continueOnFail \in BOOLEAN
    /\ i = 0
    /\ pc = "loop"
    /\ now = 0
    /\ inFlight = NoRequest
    /\ trace = <<>>
    /\ authLog = <<>>
    /\ returnData = <<>>
    /\ thrown = NoError
    /\ call = NoCall

SpecEnv == InitEnv /\ [][Next]_vars

\* C26: the requests of a payout item go to the sandbox payout host when the
\* environment is exactly 'sandbox', and for every other value, whatever it
\* is, the authorize request and the operation request both go to the
\* production payout host.
C26_SandboxOnlyWhenExact ==
    \A k \in AuthorizeRequests \cup OperationRequests :
        /\ credentials.environment = "sandbox" =>
               trace[k].req.host = <<"https://sandbox.cashfree.com">>
        /\ credentials.environment # "sandbox" =>
               trace[k].req.host = <<"https://payout-api.cashfree.com">>

\* with the environment spelt 'Sandbox' a payout item sent its authorize and
\* its operation request, both to the production payout host
C26_Witness ==
    /\ credentials.environment = "Sandbox"
    /\ \E a \in AuthorizeRequests, c \in OperationRequests :
           /\ trace[a].item = trace[c].item
           /\ trace[a].req.host = <<"https://payout-api.cashfree.com">>
           /\ trace[c].req.host = <<"https://payout-api.cashfree.com">>

(* ------------------- failures of getPayoutAuthToken ------------------- *)

\* the stage a failed call of getPayoutAuthToken stopped at, read off its
\* arguments and the response it received
StageOf(e) ==
    IF e.resp = NoResponse
    THEN IF Blank(e.args.clientId) \/ Blank(e.args.clientSecret)
            \/ Blank(e.args.publicKey)
         THEN "missing credential" ELSE "signature"
    ELSE IF e.resp.kind = "reject" THEN "network"
    ELSE IF e.resp.status < 200 \/ e.resp.status > 299 THEN "http status"
    ELSE IF ~e.resp.parses THEN "unparsable body"
    ELSE IF e.resp.json.type = "object" /\ e.resp.json.status = Str(<<"ERROR">>)
    THEN "error status"
    ELSE "response shape"

\* the message of the error raised at each stage
StageMessage(e) ==
    LET stage == StageOf(e) IN
    IF stage = "missing credential"
    THEN <<"Payout ">>
         \o (IF Blank(e.args.clientId) THEN <<"Client ID">>
             ELSE IF Blank(e.args.clientSecret) THEN <<"Client Secret">>
             ELSE <<"Public Key">>)
         \o <<" is empty or missing">>
    ELSE IF stage = "signature"
    THEN <<"Failed to generate signature: ">> \o SignatureCause
    ELSE IF stage = "network" THEN <<"fetch failed">>
    ELSE IF stage = "http status"
    THEN <<"Authorization failed: ">> \o Digits(e.resp.status) \o <<" - ">>
         \o e.resp.text
    ELSE IF stage = "unparsable body"
    THEN <<"Unexpected token < in JSON at position 0">>
    ELSE IF stage = "error status"
    THEN <<"Cashfree API Error: ">> \o ToStr(e.resp.json.message) \o <<" (">>
         \o ToStr(e.resp.json.subCode) \o <<")">>
    ELSE IF e.resp.json.type = "null"
    THEN <<"Cannot read properties of ", "null", " (reading 'status')">>
    ELSE <<"No valid token found in authorization response: ">>
         \o Stringify(e.resp.json)

FailedAuthCalls == {k \in 1..Len(authLog) : ~authLog[k].result.ok}

\* C27: every failure of getPayoutAuthToken, whatever the stage it is raised
\* at, reaches the item as exactly one error whose message is 'Failed to get
\* authorization token: ' followed by the message of the stage; with
\* continue-on-failure that whole message is the value of the error marker of
\* the item, and without it that message is what execute throws.
C27_AuthFailureWrapped ==
    \A k \in FailedAuthCalls :
        LET e == authLog[k]
            message == <<"Failed to get authorization token: ">> \o StageMessage(e)
            markers == {j \in 1..Len(returnData) : returnData[j].item = e.item}
        IN  /\ e.result.msg = message
            /\ Cardinality({j \in 1..Len(authLog) : authLog[j].item = e.item}) = 1
            /\ IF continueOnFail
               THEN /\ Cardinality(markers) = 1
                    /\ \A j \in markers :
                           returnData[j].error /\ returnData[j].message = message
               ELSE /\ markers = {}
                    /\ pc = "thrown" /\ i = e.item /\ thrown = message

\* with continue-on-failure, one item of the batch failed on a non-success
\* HTTP status of the authorize endpoint and another on a body that does not
\* parse, and each has its error marker
C27_Witness ==
    /\ continueOnFail
    /\ \E k, j \in FailedAuthCalls :
           /\ StageOf(authLog[k]) = "http status"
           /\ StageOf(authLog[j]) = "unparsable body"
    /\ Cardinality({j \in 1..Len(returnData) : returnData[j].error}) >= 2

(* ----------------------------- termination ---------------------------- *)

\* credentials for the runs to termination: complete ones, ones whose key
\* does not parse, and ones with neither client id configured
LiveCredentialSets ==
    {c \in [payoutClientId : {<<>>, <<"CF1">>}, payoutClientSecret : {<<"s3cret">>},
            payoutPublicKey : {GoodPem, BadPem}, environment : {"sandbox"},
            clientId : GatewayClientIds, clientSecret : {<<"pgsecret">>},
            apiVersion : {<<"2025-01-01">>}] :
        /\ c.payoutClientId = <<>> <=> c.clientId = <<>>
        /\ c.payoutClientId = <<>> => c.payoutPublicKey = GoodPem}

InitLive ==
    /\ credentials \in LiveCredentialSets
    /\ items \in Batches
    /\ continueOnFail \in BOOLEAN
    /\ i = 0
    /\ pc = "loop"
    /\ now = 0
    /\ inFlight = NoRequest
    /\ trace = <<>>
    /\ authLog = <<>>
    /\ returnData = <<>>
    /\ thrown = NoError
    /\ call = NoCall

\* execute where every step that can be taken is eventually taken: the
\* synchronous code between two awaits always runs on, and every request that
\* was issued eventually completes
SpecLive == InitLive /\ [][Next]_vars /\ WF_vars(Next)

Terminated == pc \in {"returned", "thrown"}

\* the step begins with the completion of the request in flight
CompletesInFlight ==
    /\ Len(trace') > Len(trace)
    /\ SubSeq(trace', 1, Len(trace)) = trace
    /\ trace'[Len(trace) + 1].ev = "response"
    /\ trace'[Len(trace) + 1].req = inFlight

\* C28: for every finite batch, when each request that is issued eventually
\* completes, execute eventually terminates, by returning or by raising, and
\* it has issued at most two requests for each payout item; while a request
\* is in flight execute has not terminated and the only step it can take is
\* the completion of that request, so a request that never completes leaves
\* execute waiting for ever with no later item processed.
C28_Terminates ==
    /\ <>Terminated
    /\ [](\A n \in PayoutItems :
              Cardinality(RequestsOf(n, Operations \cup {"authorize"})) <= 2)
    /\ [](inFlight # NoRequest => ~Terminated)
    /\ [][inFlight # NoRequest => CompletesInFlight]_vars

\* execute returned from a batch of MaxItems items in which a payout item
\* issued its two requests and both completed
C28_Witness ==
    /\ pc = "returned"
    /\ Len(items) = MaxItems
    /\ \E n \in PayoutItems :
           /\ Cardinality(RequestsOf(n, Operations \cup {"authorize"})) = 2
           /\ Cardinality(ResponsesOf(n)) = 2

=============================================================================
